---- MODULE Spec2Model ----
(***************************************************************************)
(* Wiki builder: the in-memory job store, the background job task          *)
(* (_execute_job), the recursive page uploader (_upload_pages) and the     *)
(* retrying ClickUp client (_post) it drives.                              *)
(*                                                                         *)
(* Python coroutines run without interruption between two awaits that      *)
(* really suspend (a network request, a sleep).  Every action below is one *)
(* such run: it starts where a task was suspended and ends at the next     *)
(* suspension.  The straight-line code of a run is written as operators on *)
(* a bundle  s = [t |-> the task's locals, j |-> the job object it holds,  *)
(* calls |-> the log of client calls], chained in program order.           *)
(***************************************************************************)
EXTENDS Naturals, Sequences, FiniteSets, TLC

\* ---------------------------------------------------------------- bounds
\* Largest number of pages in a submitted tree.
MaxNodes == 4
\* Largest number of pages in a tree of the specification with fairness.
MaxLiveNodes == 2

\* ------------------------------------------------------------ plain data
\* Python's None, for Optional[str] fields.
None == "<None>"
\* Python truthiness of an Optional[str]: None and "" are both falsy.
Falsy(x) == x = None \/ x = ""

\* JobStatus
queued == "queued"
running == "running"
completed == "completed"
failed == "failed"
JobStatus == {queued, running, completed, failed}

Titles == <<"A", "B", "C", "D", "E", "F", "G", "H">>
\* The ids the remote side gives to what it creates, one per call.
PageIds == <<"p1", "p2", "p3", "p4", "p5", "p6", "p7", "p8", "p9", "p10", "p11", "p12",
             "p13", "p14", "p15", "p16">>
DocIds == <<"d1", "d2", "d3", "d4", "d5", "d6", "d7", "d8", "d9", "d10", "d11", "d12",
            "d13", "d14", "d15", "d16">>

\* ----------------------------------------------------------- page trees
\* A list of WikiPage with its nested children is a function from paths to
\* pages: the k-th page of the top-level list is at <<k>>, the k-th child of
\* the page at p is at Append(p, k).  The list a prefix q names is the pages
\* at Append(q, 1), Append(q, 2), ... in this order.
IsPrefix(q, p) == Len(q) <= Len(p) /\ SubSeq(p, 1, Len(q)) = q
ListAt(paths, q) == {p \in paths : Len(p) = Len(q) + 1 /\ IsPrefix(q, p)}
ListLen(paths, q) == Cardinality(ListAt(paths, q))
Descendants(paths, p) == {d \in paths : IsPrefix(p, d) /\ d # p}
Ancestors(p) == {SubSeq(p, 1, k) : k \in 1..(Len(p) - 1)}
ParentOf(p) == SubSeq(p, 1, Len(p) - 1)

\* Ordered forests with n nodes, as parent vectors over the nodes numbered in
\* document order (0 is "no parent").
RECURSIVE AncOrSelf(_, _)
AncOrSelf(f, i) == IF i = 0 THEN {0} ELSE {i} \cup AncOrSelf(f, f[i])
ParentVecs(n) ==
    {f \in {g \in [1..n -> 0..(n - 1)] : \A i \in 1..n : g[i] < i} :
        \A i \in 1..n : f[i] \in AncOrSelf(f, i - 1)}
RECURSIVE PathOf(_, _)
PathOf(f, i) ==
    LET rank == Cardinality({k \in 1..i : f[k] = f[i]})
    IN  IF f[i] = 0 THEN <<rank>> ELSE Append(PathOf(f, f[i]), rank)
RECURSIVE LexLess(_, _)
LexLess(p, q) ==
    IF p = <<>> THEN q # <<>>
    ELSE IF q = <<>> THEN FALSE
    ELSE IF Head(p) # Head(q) THEN Head(p) < Head(q)
    ELSE LexLess(Tail(p), Tail(q))
\* Titles are given level by level, so that A(B(D), C) is the tree with paths
\* A = <<1>>, B = <<1,1>>, C = <<1,2>>, D = <<1,1,1>>.
LevelRank(paths, p) ==
    1 + Cardinality({q \in paths : Len(q) < Len(p) \/ (Len(q) = Len(p) /\ LexLess(q, p))})
WikiPages(paths) == [p \in paths |-> [title |-> Titles[LevelRank(paths, p)]]]
TreesOfSize(n) == {WikiPages({PathOf(f, i) : i \in 1..n}) : f \in ParentVecs(n)}
\* WikiCreateRequest.pages has min_length = 1.
Trees(max) == UNION {TreesOfSize(n) : n \in 1..max}

\* _count_pages
RECURSIVE CountFrom(_, _)
CountFrom(pages, q) ==
    LET n == ListLen(DOMAIN pages, q)
        RECURSIVE Sum(_)
        Sum(k) == IF k = 0 THEN 0 ELSE CountFrom(pages, Append(q, k)) + Sum(k - 1)
    IN  n + Sum(n)
\* Variant: only the top-level pages are counted.
_count_roots(pages) == ListLen(DOMAIN pages, <<>>)
_count_pages(pages) == CountFrom(pages, <<>>)

\* ------------------------------------------------------------- requests
\* TargetLocation after construction, WikiCreateRequest
Targets(ws, spaces, docs, parents) ==
    [workspace_id : ws, space_id : spaces, doc_id : docs, parent_page_id : parents]
Requests(trees, targets) == [doc_name : {"Wiki"}, target : targets, pages : trees]

\* ------------------------------------------------------------ ClickUp URLs
\* A URL is the sequence of its parts between slashes, so that
\* https://app.clickup.com/T1/v/dc/D1 is <<"https:", "", "app.clickup.com",
\* "T1", "v", "dc", "D1">>; the parts hold no slash, no "?" and no white
\* space.  The empty sequence is the url that is None or "": both are falsy
\* and nothing tells them apart.
NoUrl == <<>>
Url(scheme, host, path) == <<scheme, "", host>> \o path

\* Variant: the host is not looked at.
MatchesAnyHost(url, kind) ==
    /\ Len(url) >= 7
    /\ url[1] \in {"http:", "https:"}
    /\ url[2] = ""
    /\ url[4] # ""
    /\ url[5] = "v"
    /\ url[6] = kind
    /\ url[7] # ""

\* https?://app\.clickup\.com/(?P<team_id>[^/]+)/v/ ... matched at the start
\* of the url: what follows the match is not looked at.
MatchesClickUp(url, kind) ==
    /\ Len(url) >= 7
    /\ url[1] \in {"http:", "https:"}
    /\ url[2] = ""
    /\ url[3] = "app.clickup.com"
    /\ url[4] # ""
    /\ url[5] = "v"
    /\ url[6] = kind
    /\ url[7] # ""

\* parse_clickup_url: a dict with the keys found, {} when neither shape
\* matches.
parse_clickup_url(url) ==
    IF MatchesClickUp(url, "dc")
    THEN ("workspace_id" :> url[4]) @@ ("doc_id" :> url[7]) @@
         (IF Len(url) >= 8 /\ url[8] # "" THEN ("parent_page_id" :> url[8]) ELSE <<>>)
    ELSE IF MatchesClickUp(url, "s")
    THEN ("workspace_id" :> url[4]) @@ ("space_id" :> url[7])
    ELSE <<>>

\* Variant: what the URL gives replaces what the caller gave.
_resolve_url_first(self) ==
    LET parsed == parse_clickup_url(self.url)
        Fill(field) == IF field \in DOMAIN parsed THEN parsed[field] ELSE self[field]
    IN  IF self.url = NoUrl \/ DOMAIN parsed = {} THEN self
        ELSE [url |-> self.url,
              workspace_id |-> Fill("workspace_id"),
              doc_id |-> Fill("doc_id"),
              parent_page_id |-> Fill("parent_page_id"),
              space_id |-> Fill("space_id")]

\* TargetLocation._resolve_url: `if not self.<field> and "<field>" in parsed`
_resolve_url(self) ==
    LET parsed == parse_clickup_url(self.url)
        Fill(field) ==
            IF Falsy(self[field]) /\ field \in DOMAIN parsed THEN parsed[field]
            ELSE self[field]
    IN  IF self.url = NoUrl \/ DOMAIN parsed = {} THEN self
        ELSE [url |-> self.url,
              workspace_id |-> Fill("workspace_id"),
              doc_id |-> Fill("doc_id"),
              parent_page_id |-> Fill("parent_page_id"),
              space_id |-> Fill("space_id")]

\* TargetLocation(**fields): the fields as given, then the validator.
TargetLocation(fields) == _resolve_url(fields)

\* The fields a caller can give: a url or none, and for every id nothing, an
\* empty string or a value of its own.
TargetFields(urls, ids) ==
    [url : urls, workspace_id : ids, space_id : ids, doc_id : ids, parent_page_id : ids]

\* ------------------------------------------------------------------ JSON
\* A parsed JSON value carries its Python type: a dict (a function from keys
\* to values), a list (a sequence), a str, a number, None.  A str whose
\* characters are themselves a text to be parsed is kept as that text.
JObj(f) == [k |-> "dict", v |-> f]
JArr(q) == [k |-> "list", v |-> q]
JStr(x) == [k |-> "str", v |-> x]
JText(text) == [k |-> "text", v |-> text]
JNum == [k |-> "int", v |-> "5"]
JNull == [k |-> "None", v |-> ""]
IsDict(x) == x.k = "dict"
IsList(x) == x.k = "list"
IsStr(x) == x.k \in {"str", "text"}
\* key in d, d.get(key, default), d[key] = x, d.pop(key) as a new dict
Has(d, key) == key \in DOMAIN d.v
Get(d, key, default) == IF Has(d, key) THEN d.v[key] ELSE default
Put(d, key, x) == JObj((key :> x) @@ d.v)
Without(d, key) == JObj([p \in DOMAIN d.v \ {key} |-> d.v[p]])

\* A text is a sequence of tokens: white space between tokens is left out.
\* A string literal is sound ("s"), holds a raw control character such as a
\* line break ("s-ctl"), holds a backslash before a character that cannot be
\* escaped ("s-esc"), or is written in typographic quotes ("s-smart"); a
\* sound string literal that holds a text is "s-text".
P(c) == [t |-> "p", v |-> c]
S(x) == [t |-> "s", v |-> x]
Stext(text) == [t |-> "s-text", v |-> text]
Sctl(x) == [t |-> "s-ctl", v |-> x]
Sesc(x) == [t |-> "s-esc", v |-> x]
Ssmart(x) == [t |-> "s-smart", v |-> x]
Num == [t |-> "n", v |-> "5"]
NullTok == [t |-> "null", v |-> ""]
Word == [t |-> "w", v |-> "see"]
Html == [t |-> "html", v |-> "<p>"]
Fence == [t |-> "fence", v |-> "fence"]
Tag == [t |-> "tag", v |-> "json"]

\* json.loads: the value, or JSONDecodeError with its position and message.
Decoded(val, next) == [ok |-> TRUE, val |-> val, next |-> next]
JSONDecodeError(pos, msg) == [ok |-> FALSE, pos |-> pos, msg |-> msg]
ControlCharacter == "Invalid control character at"
InvalidEscape == "Invalid \\escape"
ExpectingValue == "Expecting value"

\* The string literal at i.
ScanString(toks, i) ==
    CASE toks[i].t = "s" -> Decoded(JStr(toks[i].v), i + 1)
      [] toks[i].t = "s-text" -> Decoded(JText(toks[i].v), i + 1)
      [] toks[i].t = "s-ctl" -> JSONDecodeError(i, ControlCharacter)
      [] toks[i].t = "s-esc" -> JSONDecodeError(i, InvalidEscape)

RECURSIVE ParseValue(_, _)
RECURSIVE ParseMembers(_, _, _)
RECURSIVE ParseElements(_, _, _)
ParseValue(toks, i) ==
    IF i > Len(toks) THEN JSONDecodeError(i, ExpectingValue)
    ELSE CASE toks[i].t \in {"s", "s-text", "s-ctl", "s-esc"} -> ScanString(toks, i)
           [] toks[i].t = "n" -> Decoded(JNum, i + 1)
           [] toks[i].t = "null" -> Decoded(JNull, i + 1)
           [] toks[i] = P("{") ->
                IF i + 1 <= Len(toks) /\ toks[i + 1] = P("}")
                THEN Decoded(JObj(<<>>), i + 2)
                ELSE ParseMembers(toks, i + 1, <<>>)
           [] toks[i] = P("[") ->
                IF i + 1 <= Len(toks) /\ toks[i + 1] = P("]")
                THEN Decoded(JArr(<<>>), i + 2)
                ELSE ParseElements(toks, i + 1, <<>>)
           [] OTHER -> JSONDecodeError(i, ExpectingValue)
\* A key is expected at i; of two equal keys the later one stays.
ParseMembers(toks, i, acc) ==
    IF i > Len(toks) \/ toks[i].t \notin {"s", "s-text", "s-ctl", "s-esc"}
    THEN JSONDecodeError(i, "Expecting property name enclosed in double quotes")
    ELSE IF ~ScanString(toks, i).ok THEN ScanString(toks, i)
    ELSE IF i + 1 > Len(toks) \/ toks[i + 1] # P(":")
    THEN JSONDecodeError(i + 1, "Expecting : delimiter")
    ELSE LET r == ParseValue(toks, i + 2)
         IN  IF ~r.ok THEN r
             ELSE IF r.next > Len(toks)
             THEN JSONDecodeError(r.next, "Expecting , delimiter")
             ELSE IF toks[r.next] = P("}")
             THEN Decoded(JObj((toks[i].v :> r.val) @@ acc), r.next + 1)
             ELSE IF toks[r.next] = P(",")
             THEN ParseMembers(toks, r.next + 1, (toks[i].v :> r.val) @@ acc)
             ELSE JSONDecodeError(r.next, "Expecting , delimiter")
\* A value is expected at i.
ParseElements(toks, i, acc) ==
    LET r == ParseValue(toks, i)
    IN  IF ~r.ok THEN r
        ELSE IF r.next > Len(toks)
        THEN JSONDecodeError(r.next, "Expecting , delimiter")
        ELSE IF toks[r.next] = P("]")
        THEN Decoded(JArr(Append(acc, r.val)), r.next + 1)
        ELSE IF toks[r.next] = P(",")
        THEN ParseElements(toks, r.next + 1, Append(acc, r.val))
        ELSE JSONDecodeError(r.next, "Expecting , delimiter")

json_loads(text) ==
    LET r == ParseValue(text, 1)
    IN  IF r.ok /\ r.next <= Len(text) THEN JSONDecodeError(r.next, "Extra data")
        ELSE r

\* -------------------------------------------------------- _repair_json
\* re.sub(r",(\s*[}\]])", r"\1", text): commas right before a closing brace
\* or bracket go.
RECURSIVE StripTrailingCommas(_)
StripTrailingCommas(text) ==
    IF text = <<>> THEN <<>>
    ELSE IF /\ Head(text) = P(",")
            /\ Len(text) >= 2
            /\ text[2] \in {P("}"), P("]")}
    THEN StripTrailingCommas(Tail(text))
    ELSE <<Head(text)>> \o StripTrailingCommas(Tail(text))

\* for _ in range(max_fixes): json.loads(text), or patch the text at e.pos
\* and try again; any other error ends the loop.  `left` is what is left of
\* the range, `fixes` counts the patches made.
max_fixes == 5000
RECURSIVE RepairLoop(_, _, _)
RepairLoop(text, left, fixes) ==
    LET r == json_loads(text)
    IN  IF left = 0 \/ r.ok \/ r.pos > Len(text) THEN [text |-> text, fixes |-> fixes]
        ELSE IF r.msg \in {ControlCharacter, InvalidEscape}
        THEN RepairLoop([text EXCEPT ![r.pos] = S(@.v)], left - 1, fixes + 1)
        ELSE [text |-> text, fixes |-> fixes]

\* Variant: the range is one longer than asked for.
RepairOneMore(text, limit) == RepairLoop(StripTrailingCommas(text), limit + 1, 0)
\* _repair_json(text, max_fixes=limit): the text it returns and the patches
\* it made.
Repair(text, limit) == RepairLoop(StripTrailingCommas(text), limit, 0)
\* _repair_json(text), with the default max_fixes.
_repair_json(text) == Repair(text, max_fixes).text

\* ------------------------------------------------ _normalize_wiki_payload
\* Python objects are changed in place: each operator gives, next to what the
\* function returns or raises, the argument as the call leaves it.
TypeError == "TypeError: object is not iterable"

\* One page dict in the loop of _normalize_pages, before its children.
RenameSummary(page) ==
    IF ~Has(page, "content") /\ Has(page, "summary")
    THEN Put(Without(page, "summary"), "content", page.v["summary"])
    ELSE page

\* _normalize_pages(pages): `for p in pages` takes the items of a list, the
\* characters of a str, the keys of a dict, and raises TypeError for a
\* number or None; anything that is not a dict is skipped.
RECURSIVE _normalize_pages(_)
RECURSIVE NormalizeFrom(_, _, _)
_normalize_pages(pages) ==
    IF IsList(pages) THEN NormalizeFrom(pages, 1, <<>>)
    ELSE IF IsStr(pages) \/ IsDict(pages)
    THEN [raised |-> "", out |-> JArr(<<>>), arg |-> pages]
    ELSE [raised |-> TypeError, out |-> JNull, arg |-> pages]
\* The loop at item i of the list, with `out` so far.
NormalizeFrom(pages, i, out) ==
    IF i > Len(pages.v) THEN [raised |-> "", out |-> JArr(out), arg |-> pages]
    ELSE IF ~IsDict(pages.v[i]) THEN NormalizeFrom(pages, i + 1, out)
    ELSE LET p == RenameSummary(pages.v[i])
             r == _normalize_pages(Get(p, "children", JArr(<<>>)))
         IN  IF r.raised # ""
             THEN [raised |-> r.raised, out |-> JNull,
                   arg |-> JArr([pages.v EXCEPT ![i] = Put(p, "children", r.arg)])]
             ELSE NormalizeFrom(JArr([pages.v EXCEPT ![i] = Put(p, "children", r.out)]),
                                i + 1, Append(out, Put(p, "children", r.out)))

\* if "target_url" in data and "target" not in data: ...
\* if isinstance(data.get("target"), str): ...
NormalizeTarget(data) ==
    LET d == IF Has(data, "target_url") /\ ~Has(data, "target")
             THEN Put(Without(data, "target_url"), "target",
                      JObj("url" :> data.v["target_url"]))
             ELSE data
    IN  IF Has(d, "target") /\ IsStr(d.v["target"])
        THEN Put(d, "target", JObj("url" :> d.v["target"]))
        ELSE d

\* _normalize_wiki_payload(data): `data` is changed in place and returned.
_normalize_wiki_payload(data) ==
    LET d == NormalizeTarget(data)
    IN  IF Has(d, "pages") /\ IsList(d.v["pages"])
        THEN LET r == _normalize_pages(d.v["pages"])
             IN  IF r.raised # ""
                 THEN [raised |-> r.raised, ret |-> JNull, arg |-> Put(d, "pages", r.arg)]
                 ELSE [raised |-> "", ret |-> Put(d, "pages", r.out),
                       arg |-> Put(d, "pages", r.out)]
        ELSE [raised |-> "", ret |-> d, arg |-> d]

\* --------------------------------------------------- _try_parse_wiki_json
Positions(text, tok) == {i \in 1..Len(text) : text[i] = tok}
First(set) == CHOOSE i \in set : \A j \in set : i <= j
Final(set) == CHOOSE i \in set : \A j \in set : i >= j

\* re.findall(r"```(?:\w*\n|\n)?(.*?)```", text, re.DOTALL): what stands
\* between a fence, with the language tag after it if there is one, and the
\* next fence; the search goes on after that fence.
RECURSIVE code_blocks(_)
code_blocks(text) ==
    IF Positions(text, Fence) = {} THEN <<>>
    ELSE LET open == First(Positions(text, Fence))
             start == IF open < Len(text) /\ text[open + 1] = Tag
                      THEN open + 2 ELSE open + 1
             closing == {j \in Positions(text, Fence) : j >= start}
         IN  IF closing = {} THEN <<>>
             ELSE <<SubSeq(text, start, First(closing) - 1)>> \o
                  code_blocks(SubSeq(text, First(closing) + 1, Len(text)))

\* _clean_rich_text: HTML tags go, typographic quotes become plain ones.
_clean_rich_text(text) ==
    LET kept == SelectSeq(text, LAMBDA tok : tok.t # "html")
    IN  [i \in 1..Len(kept) |->
            IF kept[i].t = "s-smart" THEN S(kept[i].v) ELSE kept[i]]

\* attempt_text[start:end + 1] from find("{") to rfind("}"); <<>> stands for
\* `continue` (start == -1 or end <= start).
BraceSpan(text) ==
    IF Positions(text, P("{")) = {} \/ Positions(text, P("}")) = {} THEN <<>>
    ELSE IF Final(Positions(text, P("}"))) <= First(Positions(text, P("{"))) THEN <<>>
    ELSE SubSeq(text, First(Positions(text, P("{"))), Final(Positions(text, P("}"))))

\* The texts handed to json.loads, in the order the function tries them:
\* each fenced block as it is and repaired; then the text, its brace span
\* and the repaired brace span; then the same for the cleaned text.
RECURSIVE BlockCandidates(_)
BlockCandidates(blocks) ==
    IF blocks = <<>> THEN <<>>
    ELSE (IF Head(blocks) = <<>> THEN <<>>
          ELSE <<Head(blocks), _repair_json(Head(blocks))>>) \o
         BlockCandidates(Tail(blocks))
TextCandidates(attempt_text) ==
    IF attempt_text = <<>> THEN <<>>
    ELSE <<attempt_text>> \o
         (IF BraceSpan(attempt_text) = <<>> THEN <<>>
          ELSE <<BraceSpan(attempt_text), _repair_json(BraceSpan(attempt_text))>>)
Candidates(text) ==
    BlockCandidates(code_blocks(text)) \o TextCandidates(text) \o
    TextCandidates(_clean_rich_text(text))

\* data = json.loads(candidate);
\* if isinstance(data, dict) and "pages" in data:
\*     return _normalize_wiki_payload(data)
\* with `except (json.JSONDecodeError, ValueError): pass` around it.
RECURSIVE TryFrom(_, _)
Normal(r) == [raised |-> r.raised, ret |-> r.ret]
Try(data, candidates, i) ==
    IF data.ok /\ IsDict(data.val) /\ Has(data.val, "pages")
    THEN Normal(_normalize_wiki_payload(data.val))
    ELSE TryFrom(candidates, i + 1)
TryFrom(candidates, i) ==
    IF i > Len(candidates) THEN [raised |-> "", ret |-> JNull]
    ELSE Try(json_loads(candidates[i]), candidates, i)

\* _try_parse_wiki_json(text): a dict, None (JNull), or what it raises.
_try_parse_wiki_json(text) == TryFrom(Candidates(text), 1)

\* ------------------------------------------------------- payloads and texts
\* The JSON text of a value, keys in the order of KeyOrder.
KeyOrder ==
    <<"event", "task_id", "taskId", "id", "name", "payload", "task",
      "history_items", "after", "task_description", "description",
      "Task Description", "task_content", "body", "text",
      "doc_name", "target", "target_url", "url", "pages", "title", "content",
      "summary", "children">>
RECURSIVE Dump(_)
RECURSIVE DumpItems(_)
RECURSIVE DumpMembers(_, _)
Dump(x) ==
    CASE x.k = "str" -> <<S(x.v)>>
      [] x.k = "text" -> <<Stext(x.v)>>
      [] IsList(x) -> <<P("[")>> \o DumpItems(x.v) \o <<P("]")>>
      [] IsDict(x) ->
            <<P("{")>> \o
            DumpMembers(x, SelectSeq(KeyOrder, LAMBDA key : Has(x, key))) \o
            <<P("}")>>
      [] x = JNum -> <<Num>>
      [] OTHER -> <<NullTok>>
DumpItems(q) ==
    IF q = <<>> THEN <<>>
    ELSE IF Len(q) = 1 THEN Dump(q[1])
    ELSE Dump(q[1]) \o <<P(",")>> \o DumpItems(Tail(q))
DumpMembers(d, keys) ==
    IF keys = <<>> THEN <<>>
    ELSE <<S(keys[1]), P(":")>> \o Dump(d.v[keys[1]]) \o
         (IF Len(keys) = 1 THEN <<>> ELSE <<P(",")>> \o DumpMembers(d, Tail(keys)))

\* A key that is absent, or present with one of the values.
Optional(key, values) == {<<>>} \cup {key :> x : x \in values}

\* What an agent may write for children: a list, or something else.
RECURSIVE PageDicts(_)
ChildrenValues(depth) ==
    {JArr(<<>>), JNum, JNull, JStr("x")} \cup
    (IF depth = 0 THEN {} ELSE {JArr(<<p>>) : p \in PageDicts(depth - 1)})
PageDicts(depth) ==
    {JObj(("title" :> JStr("A")) @@ content @@ summary @@ children) :
        content \in Optional("content", {JStr("c")}),
        summary \in Optional("summary", {JStr("s")}),
        children \in Optional("children", ChildrenValues(depth))}
PagesValues(depth) ==
    {JArr(<<>>), JNum, JArr(<<JNum>>)} \cup
    {JArr(<<p>>) : p \in PageDicts(depth)} \cup
    {JArr(<<p, JObj("title" :> JStr("A"))>>) : p \in PageDicts(0)}
Payloads(depth) ==
    {JObj(doc_name @@ target @@ target_url @@ pages) :
        doc_name \in Optional("doc_name", {JStr("Wiki")}),
        target \in Optional("target", {JStr("u"), JObj("url" :> JStr("u"))}),
        target_url \in Optional("target_url", {JStr("u2")}),
        pages \in Optional("pages", PagesValues(depth))}

\* Ways a JSON text reaches the service: as it is, in a fenced block, inside
\* prose, inside HTML, with a comma before the last closing brace, with a raw
\* line break or a backslash before a letter in its first string value, in
\* typographic quotes, in typographic quotes in a fenced block with prose and
\* a closing brace after it.
WithTrailingComma(text) ==
    SubSeq(text, 1, Len(text) - 1) \o <<P(","), text[Len(text)]>>
WithLineBreak(text) ==
    LET at == {i \in 2..Len(text) : text[i].t = "s" /\ text[i - 1] = P(":")}
    IN  IF at = {} THEN text ELSE [text EXCEPT ![First(at)] = Sctl(@.v)]
WithBadEscape(text) ==
    LET at == {i \in 2..Len(text) : text[i].t = "s" /\ text[i - 1] = P(":")}
    IN  IF at = {} THEN text ELSE [text EXCEPT ![First(at)] = Sesc(@.v)]
WithSmartQuotes(text) ==
    [i \in 1..Len(text) |-> IF text[i].t = "s" THEN Ssmart(text[i].v) ELSE text[i]]
Wrappings(text) ==
    {text,
     <<Fence, Tag>> \o text \o <<Fence>>,
     <<Word>> \o text \o <<Word>>,
     <<Html>> \o text \o <<Html>>,
     WithTrailingComma(text),
     WithLineBreak(text),
     WithBadEscape(text),
     WithSmartQuotes(text),
     <<Fence, Tag>> \o WithSmartQuotes(text) \o <<Fence, Word, P("}")>>}
\* Texts with no JSON object in them.
PlainTexts ==
    {<<>>, <<Word>>, <<Word, Word>>, <<Html, Word>>, <<Fence, Word, Fence>>,
     <<Num>>, <<S("A")>>, <<P("["), Num, P("]")>>, <<P("{")>>, <<P("}"), P("{")>>}
Texts(depth) ==
    PlainTexts \cup UNION {Wrappings(Dump(x)) : x \in Payloads(depth)}

\* ------------------------------------------------- the router: requests
\* Python truthiness of a parsed value.
Truthy(x) ==
    CASE x.k = "str" -> x.v # ""
      [] x.k \in {"text", "list"} -> x.v # <<>>
      [] x.k = "dict" -> DOMAIN x.v # {}
      [] x.k = "int" -> TRUE
      [] OTHER -> FALSE

\* len(text), white space between the tokens left out.
RECURSIVE CharLen(_)
TokenLen(tok) ==
    CASE tok.t = "p" -> 1
      [] tok.t \in {"s", "s-smart"} -> Len(tok.v) + 2
      [] tok.t \in {"s-ctl", "s-esc"} -> Len(tok.v) + 3
      [] tok.t = "s-text" -> CharLen(tok.v) + 2
      [] tok.t = "null" -> 4
      [] tok.t = "fence" -> 3
      [] tok.t = "tag" -> Len(tok.v) + 1
      [] OTHER -> Len(tok.v)
CharLen(text) ==
    IF text = <<>> THEN 0 ELSE TokenLen(Head(text)) + CharLen(Tail(text))

\* The characters of a str as a text: a str that holds no text is one word.
TextOf(x) ==
    IF x.k = "text" THEN x.v
    ELSE IF x.v = "" THEN <<>> ELSE <<[t |-> "w", v |-> x.v]>>
\* len(value) of a str.
StrLen(x) == IF x.k = "text" THEN CharLen(x.v) ELSE Len(x.v)

\* The strings that stand for URLs in a JSON text or a query parameter, and
\* their parts; any other string has no slash in it.
SpaceUrl == "https://app.clickup.com/T1/v/s/S1"
DocUrl == "https://app.clickup.com/T1/v/dc/D1"
PageUrl == "https://app.clickup.com/T1/v/dc/D1/P1"
ListUrl == "https://app.clickup.com/T1/v/li/L1"
OtherUrl == "https://example.com/wiki"
ForeignUrl == "https://example.com/T1/v/s/S1"
UrlParts(x) ==
    CASE x = SpaceUrl -> Url("https:", "app.clickup.com", <<"T1", "v", "s", "S1">>)
      [] x = DocUrl -> Url("https:", "app.clickup.com", <<"T1", "v", "dc", "D1">>)
      [] x = PageUrl -> Url("https:", "app.clickup.com", <<"T1", "v", "dc", "D1", "P1">>)
      [] x = ListUrl -> Url("https:", "app.clickup.com", <<"T1", "v", "li", "L1">>)
      [] x = OtherUrl -> Url("https:", "example.com", <<"wiki">>)
      [] x = ForeignUrl -> Url("https:", "example.com", <<"T1", "v", "s", "S1">>)
      [] OTHER -> <<x>>

AttributeError == "AttributeError: object has no attribute get"
\* pydantic's ValidationError, a ValueError.
ValidationError == "ValidationError"

\* WikiPage(title=..., content=..., children=...): title is a str of at least
\* one character, content is a str.
WikiPage(title, content, children) ==
    IF IsStr(title) /\ Truthy(title) /\ IsStr(content)
    THEN [raised |-> "", page |-> [title |-> title.v, children |-> children]]
    ELSE [raised |-> ValidationError, page |-> <<>>]

\* _build_pages(raw): the list of WikiPage, or what `for p in raw`, p.get or
\* WikiPage raises.  The arguments of WikiPage, children among them, are
\* evaluated before WikiPage validates.
RECURSIVE _build_pages(_)
RECURSIVE BuildFrom(_, _, _)
_build_pages(raw) ==
    IF IsList(raw) THEN BuildFrom(raw.v, 1, <<>>)
    ELSE IF IsStr(raw) \/ IsDict(raw)
    THEN [raised |-> IF Truthy(raw) THEN AttributeError ELSE "", out |-> <<>>]
    ELSE [raised |-> TypeError, out |-> <<>>]
BuildFrom(raw, i, out) ==
    IF i > Len(raw) THEN [raised |-> "", out |-> out]
    ELSE IF ~IsDict(raw[i]) THEN [raised |-> AttributeError, out |-> <<>>]
    ELSE LET p == raw[i]
             title == Get(p, "title", JStr("Untitled"))
             content == IF Truthy(Get(p, "content", JStr("")))
                        THEN Get(p, "content", JStr(""))
                        ELSE Get(p, "summary", JStr(""))
             children == _build_pages(Get(p, "children", JArr(<<>>)))
             page == WikiPage(title, content, children.out)
         IN  IF children.raised # "" THEN [raised |-> children.raised, out |-> <<>>]
             ELSE IF page.raised # "" THEN [raised |-> page.raised, out |-> <<>>]
             ELSE BuildFrom(raw, i + 1, Append(out, page.page))

\* A list of WikiPage as the function from paths the job walks.
RECURSIVE PagesFrom(_, _, _)
PagesFrom(pages, q, i) ==
    IF i > Len(pages) THEN <<>>
    ELSE (Append(q, i) :> [title |-> pages[i].title]) @@
         PagesFrom(pages[i].children, Append(q, i), 1) @@
         PagesFrom(pages, q, i + 1)

\* TargetLocation(**target_data): a mapping, whose fields are each a str or
\* None; other keys are ignored.
TargetFieldNames == {"url", "workspace_id", "doc_id", "parent_page_id", "space_id"}
TargetFrom(target_data) ==
    IF ~IsDict(target_data) THEN [raised |-> TypeError, given |-> <<>>, target |-> <<>>]
    ELSE IF \E field \in TargetFieldNames :
                /\ Has(target_data, field)
                /\ ~IsStr(target_data.v[field])
                /\ target_data.v[field].k # "None"
    THEN [raised |-> ValidationError, given |-> <<>>, target |-> <<>>]
    ELSE LET Field(name) ==
                 IF ~Has(target_data, name) \/ ~IsStr(target_data.v[name]) THEN None
                 ELSE IF target_data.v[name].k = "text" THEN "<text>"
                 ELSE target_data.v[name].v
         IN  [raised |-> "",
              given |->
                  [url |-> IF Field("url") = None THEN NoUrl ELSE UrlParts(Field("url")),
                   workspace_id |-> Field("workspace_id"),
                   doc_id |-> Field("doc_id"),
                   parent_page_id |-> Field("parent_page_id"),
                   space_id |-> Field("space_id")],
              target |-> TargetLocation(
                  [url |-> IF Field("url") = None THEN NoUrl ELSE UrlParts(Field("url")),
                   workspace_id |-> Field("workspace_id"),
                   doc_id |-> Field("doc_id"),
                   parent_page_id |-> Field("parent_page_id"),
                   space_id |-> Field("space_id")])]

\* WikiCreateRequest(doc_name=..., target=..., pages=...): doc_name is a str
\* of at least one character and pages has at least one page.
WikiCreateRequest(doc_name, target, pages) ==
    IF IsStr(doc_name) /\ Truthy(doc_name) /\ pages # <<>>
    THEN [raised |-> "",
          request |-> [doc_name |-> doc_name.v, target |-> target,
                       pages |-> PagesFrom(pages, <<>>, 1)]]
    ELSE [raised |-> ValidationError, request |-> <<>>]

\* ---------------------------------------------- the router: the webhook
\* A function that returns a dict or None, or raises: None is JNull.
Found(x) == [raised |-> "", ret |-> x]
NotFound == [raised |-> "", ret |-> JNull]
\* result = ...; if result: return result -- and otherwise what comes next.
OrElse(result, next) ==
    IF result.raised # "" \/ Truthy(result.ret) THEN result ELSE next

\* _find_wiki_payload_in_text(text)
_find_wiki_payload_in_text(text) ==
    IF text = <<>> \/ CharLen(text) < 10 THEN NotFound
    ELSE _try_parse_wiki_json(text)

\* _find_wiki_payload(data): the dict itself, or what the extractor finds in
\* one of its description fields, in a long string value or in a dict value.
\* The items of a dict are taken in the order of ItemOrder.
DescriptionFields ==
    <<"task_description", "description", "Task Description", "task_content",
      "content", "body", "text">>
ItemOrder == KeyOrder
RECURSIVE FieldsFrom(_, _)
RECURSIVE ItemsFrom(_, _)
RECURSIVE _find_wiki_payload(_)
\* Strategy 2, at the i-th description field.
FieldsFrom(data, i) ==
    IF i > Len(DescriptionFields) THEN ItemsFrom(data, 1)
    ELSE LET value == Get(data, DescriptionFields[i], JStr(""))
         IN  IF IsStr(value) /\ Truthy(value)
             THEN OrElse(_try_parse_wiki_json(TextOf(value)), FieldsFrom(data, i + 1))
             ELSE FieldsFrom(data, i + 1)
\* Strategy 3, at the i-th item.
ItemsFrom(data, i) ==
    IF i > Len(ItemOrder) THEN NotFound
    ELSE IF ~Has(data, ItemOrder[i]) THEN ItemsFrom(data, i + 1)
    ELSE LET value == data.v[ItemOrder[i]]
         IN  OrElse(IF IsStr(value) /\ StrLen(value) > 20
                    THEN _try_parse_wiki_json(TextOf(value))
                    ELSE IF IsDict(value) THEN _find_wiki_payload(value)
                    ELSE NotFound,
                    ItemsFrom(data, i + 1))
_find_wiki_payload(data) ==
    IF ~Truthy(data) THEN NotFound
    ELSE IF Has(data, "pages") /\ (Has(data, "target") \/ Has(data, "doc_name"))
    THEN Found(data)
    ELSE FieldsFrom(data, 1)

\* len(str(val)): Python writes a list or a dict with ", " and ": " between
\* its parts.
RECURSIVE ReprLen(_)
RECURSIVE ReprItems(_)
RECURSIVE ReprMembers(_, _)
ReprLen(x) ==
    CASE x.k = "str" -> Len(x.v) + 2
      [] x.k = "text" -> CharLen(x.v) + 2
      [] x.k = "list" -> 2 + ReprItems(x.v)
      [] x.k = "dict" -> 2 + ReprMembers(x, SelectSeq(ItemOrder, LAMBDA key : Has(x, key)))
      [] x.k = "int" -> Len(x.v)
      [] OTHER -> 4
ReprItems(q) ==
    IF q = <<>> THEN 0
    ELSE ReprLen(Head(q)) + (IF Len(q) = 1 THEN 0 ELSE 2 + ReprItems(Tail(q)))
ReprMembers(d, keys) ==
    IF keys = <<>> THEN 0
    ELSE Len(keys[1]) + 2 + 2 + ReprLen(d.v[keys[1]]) +
         (IF Len(keys) = 1 THEN 0 ELSE 2 + ReprMembers(d, Tail(keys)))

\* _is_valid_task_id(val)
_is_valid_task_id(val) ==
    IF ~Truthy(val) THEN FALSE
    ELSE IF val.k = "str"
    THEN /\ val.v \notin {"{}", "null", "undefined"}
         /\ ~(Len(val.v) >= 2 /\ SubSeq(val.v, 1, 2) = "{{")
         /\ Len(val.v) >= 5
    ELSE IF val.k = "text" THEN CharLen(val.v) >= 5
    ELSE ReprLen(val) >= 5

\* _extract_task_id(data): the value the id is taken from, or None.
_extract_task_id(data) ==
    LET IdIn(key) ==
            IF IsDict(Get(data, key, JNull)) THEN Get(data.v[key], "id", JNull)
            ELSE JNull
        history == Get(data, "history_items", JNull)
        after == IF IsList(history) /\ Truthy(history) /\ IsDict(history.v[1])
                 THEN Get(history.v[1], "after", JNull) ELSE JNull
    IN  IF _is_valid_task_id(IdIn("payload")) THEN IdIn("payload")
        ELSE IF _is_valid_task_id(Get(data, "task_id", JNull)) THEN data.v["task_id"]
        ELSE IF _is_valid_task_id(Get(data, "taskId", JNull)) THEN data.v["taskId"]
        ELSE IF _is_valid_task_id(IdIn("task")) THEN IdIn("task")
        ELSE IF IsDict(after) /\ _is_valid_task_id(Get(after, "id", JNull))
        THEN after.v["id"]
        ELSE JNull

\* _fetch_wiki_payload_from_task, given what client.get_task meets: it raises
\* (JNull stands for that) or returns the parsed body.  Every exception ends
\* in `return None`.
TaskTextFields == <<"text_content", "description", "markdown_description">>
RECURSIVE TaskFieldsFrom(_, _)
\* except Exception: return None
Caught(result, next) ==
    IF result.raised # "" THEN NotFound
    ELSE IF Truthy(result.ret) THEN result
    ELSE next
TaskFieldsFrom(task, i) ==
    IF i > Len(TaskTextFields) THEN NotFound
    ELSE LET value == Get(task, TaskTextFields[i], JStr(""))
         IN  IF ~Truthy(value) THEN TaskFieldsFrom(task, i + 1)
             ELSE IF ~IsStr(value) THEN NotFound
             ELSE Caught(_try_parse_wiki_json(TextOf(value)), TaskFieldsFrom(task, i + 1))
_fetch_wiki_payload_from_task(answer) ==
    IF ~IsDict(answer) THEN NotFound ELSE TaskFieldsFrom(answer, 1)

\* request_data: the body if it parses to a dict, the first item if it parses
\* to a list that begins with a dict, an empty dict otherwise.
RequestData(body_text) ==
    LET parsed == json_loads(body_text)
    IN  IF body_text = <<>> \/ ~parsed.ok THEN JObj(<<>>)
        ELSE IF IsDict(parsed.val) THEN parsed.val
        ELSE IF IsList(parsed.val) /\ Truthy(parsed.val) /\ IsDict(parsed.val.v[1])
        THEN parsed.val.v[1]
        ELSE JObj(<<>>)

\* is_test and "pages" not in request_data
IsTest(body_text, request_data) ==
    /\ \/ body_text = <<>>
       \/ body_text \in {<<P("{"), P("}")>>, <<P("["), P("]")>>, <<NullTok>>,
                         <<[t |-> "w", v |-> "test"]>>}
       \/ /\ Get(request_data, "event", JNull).k = "str"
          /\ request_data.v["event"].v = "test"
    /\ ~Has(request_data, "pages")

\* The four places the handler looks for the payload, in their order; `answer`
\* is what the ClickUp API gives for the task, `fetched` whether it was asked.
Marked(result, fetched) ==
    [raised |-> result.raised, ret |-> result.ret, fetched |-> fetched]
FindPayload(request_data, payload_param, body_text, answer) ==
    OrElse(Marked(_find_wiki_payload(request_data), FALSE),
    OrElse(Marked(IF payload_param # <<>> THEN _try_parse_wiki_json(payload_param)
                  ELSE NotFound, FALSE),
    OrElse(Marked(_find_wiki_payload_in_text(body_text), FALSE),
           IF _extract_task_id(request_data).k # "None"
           THEN Marked(_fetch_wiki_payload_from_task(answer), TRUE)
           ELSE Marked(NotFound, FALSE))))

\* The try block of the handler: pages, target and request in this order.
Built(doc_name, target, pages) ==
    IF pages.raised # ""
    THEN [raised |-> pages.raised, given |-> <<>>, request |-> <<>>]
    ELSE IF target.raised # ""
    THEN [raised |-> target.raised, given |-> <<>>, request |-> <<>>]
    ELSE WikiCreateRequest(doc_name, target.target, pages.out) @@
         [given |-> target.given]
WebhookRequest(wiki_payload) ==
    Built(Get(wiki_payload, "doc_name", JStr("Wiki")),
          TargetFrom(IF IsStr(Get(wiki_payload, "target", JObj(<<>>)))
                     THEN JObj("url" :> wiki_payload.v["target"])
                     ELSE Get(wiki_payload, "target", JObj(<<>>))),
          _build_pages(Get(wiki_payload, "pages", JArr(<<>>))))

\* Settings
SettingsSet(retries, delays) ==
    [api_retries : retries, api_retry_base_delay : delays]

\* ---------------------------------------------------------------- state
VARIABLES
    _jobs,      \* the job store, a dict in insertion order: <<[job_id, job reference]>>
    objs,       \* the JobStatusResponse objects, by reference (1, 2, ...)
    tasks,      \* the background tasks created by run_wiki_creation
    calls,      \* every call made on a ClickUpClient, in the order issued
    settings,   \* the Settings of the process
    remote,     \* the statuses the remote side answers a POST with
    assigned,   \* per job object, the values assigned to its status, in order
    handlers,   \* the HTTP requests the REST router has received, each with
                \* the position of its handler and, at the end, its response
    eval,       \* one application of a pure function: its argument and result
    _auth_codes,        \* the authorization codes issued and not yet presented
    _refresh_tokens,    \* the refresh tokens issued and not yet presented
    clock,              \* time.time(), in seconds
    drawn,              \* how many values secrets.token_urlsafe has produced
    token_log           \* the requests /oauth/token has answered, with the answers

\* The state of the authorization server.
oauth_vars == <<_auth_codes, _refresh_tokens, clock, drawn, token_log>>

vars == <<_jobs, objs, tasks, calls, settings, remote, assigned, handlers, eval,
          oauth_vars>>

\* The authorization server at process start: empty stores, nothing answered.
OAuthEmpty ==
    /\ _auth_codes = {}
    /\ _refresh_tokens = {}
    /\ clock = 0
    /\ drawn = 0
    /\ token_log = <<>>

\* No function is being applied.
NoEval == [op |-> "", arg |-> <<>>, done |-> FALSE, ret |-> <<>>]
\* The function `op` is about to be applied to `arg`.
Eval(op, arg) == [op |-> op, arg |-> arg, done |-> FALSE, ret |-> <<>>]

\* ------------------------------------------------------ model of the data
\* PageResult(title=..., status=...): clickup_page_id and error default to "".
PageResult(title, status) ==
    [title |-> title, clickup_page_id |-> "", status |-> status, error |-> ""]

\* JobStatusResponse(job_id=..., status=..., total_pages=...): the result tree
\* `pages` is, like the input, a function from paths to PageResult.
JobStatusResponse(job_id, status, total_pages) ==
    [job_id |-> job_id, status |-> status, doc_id |-> "", workspace_id |-> "",
     total_pages |-> total_pages, uploaded |-> 0, failed |-> 0, skipped |-> 0,
     pages |-> <<>>, error |-> ""]

\* One call on the client, as the remote side sees it: what was sent, and then
\* whether it returned (a create call with `result`, get_teams with `teams`)
\* or raised (with which message).
Call(t, op, workspace_id, doc_id, title, page, parent) ==
    [task |-> t, op |-> op, workspace_id |-> workspace_id, doc_id |-> doc_id,
     title |-> title, page |-> page, parent_page_id |-> parent, outcome |-> "pending",
     result |-> None, teams |-> <<>>, error |-> ""]

\* One activation of _upload_pages: the list it iterates (`pages`), the list it
\* appends to (`results`), the loop position, and the locals pr and page_id.
Frame(pages, results, parent_page_id) ==
    [pages |-> pages, results |-> results, i |-> 1,
     parent_page_id |-> parent_page_id, pr |-> <<>>, page_id |-> ""]

\* A task created for _execute_job(job_id, request, settings), not yet begun.
Task(id, job_id, request) ==
    [id |-> id, pc |-> "created", job_id |-> job_id, request |-> request, job |-> 0,
     workspace_id |-> None, doc_id |-> None, stack |-> <<>>, what |-> "",
     call |-> 0, attempt |-> 0, attempts |-> 0, slept |-> <<>>]

\* ------------------------------------------------ the remote side's answers
\* What one network attempt can meet: status 0 stands for a connection error
\* or timeout (httpx.ConnectError, httpx.TimeoutException), any other status
\* is a response; `id` says whether a JSON body carries an "id".
ConnectionError == 0
PostResponses(statuses) ==
    {[status |-> c, id |-> b] : c \in statuses, b \in BOOLEAN} \ 
    {[status |-> c, id |-> TRUE] : c \in statuses \ {200, 201, 202}}
GetResponses ==
    {[status |-> 200, teams |-> <<>>], [status |-> 200, teams |-> <<"ws9">>],
     [status |-> 401, teams |-> <<>>], [status |-> ConnectionError, teams |-> <<>>]}

\* str(exc) of what httpx raises.
ErrorText(status) ==
    CASE status = ConnectionError -> "ConnectError"
      [] status = 401 -> "Client error '401 Unauthorized'"
      [] status = 404 -> "Client error '404 Not Found'"
      [] status = 429 -> "Client error '429 Too Many Requests'"
      [] status = 500 -> "Server error '500 Internal Server Error'"
      [] status = 502 -> "Server error '502 Bad Gateway'"
      [] status = 503 -> "Server error '503 Service Unavailable'"
      [] OTHER -> "HTTP error"
NoWorkspaces == "No ClickUp workspaces found for this API key"
NoTarget == "Either target.doc_id (existing doc) or target.space_id (to create a new doc) must be provided."

\* ---------------------------------------------------- ClickUpClient._get
\* resp = await self._client.get(...): the one network GET goes out and the
\* task suspends on it.
_get(s, what) ==
    [s EXCEPT !.t.pc = "get", !.t.what = what, !.t.attempt = 0, !.t.attempts = 1,
              !.t.slept = <<>>]

\* --------------------------------------------------- ClickUpClient._post
\* One network POST goes out and the task suspends on it.
SendPost(s) ==
    [s EXCEPT !.t.pc = "post", !.t.attempts = @ + 1]

\* Entry of _post: `for attempt in range(self.retries)` starts at 0; with
\* retries <= 0 the loop body never runs and the final attempt goes out.
StartPost(s, what) ==
    SendPost([s EXCEPT !.t.what = what, !.t.attempt = 0, !.t.attempts = 0,
                       !.t.slept = <<>>])

\* Variant: every sleep lasts the base delay.
BackoffFlat(s) ==
    [s EXCEPT !.t.pc = "backoff",
              !.t.slept = Append(@, settings.api_retry_base_delay)]

\* delay = self.retry_base_delay * (2 ** attempt); await _async_sleep(delay)
Backoff(s) ==
    [s EXCEPT !.t.pc = "backoff",
              !.t.slept = Append(@, settings.api_retry_base_delay * (2 ^ s.t.attempt))]

\* `continue`, or falling off the end of the loop body: the next attempt.
NextAttempt(s) ==
    SendPost([s EXCEPT !.t.attempt = @ + 1])

\* The call on the client is over: it returned `result`, or raised `error`.
Returned(s, result) ==
    [s EXCEPT !.calls[s.t.call].outcome = "returned",
              !.calls[s.t.call].result = result, !.t.call = 0]
\* get_teams returned the list `teams`.
ReturnedTeams(s, teams) ==
    [s EXCEPT !.calls[s.t.call].outcome = "returned",
              !.calls[s.t.call].teams = teams, !.t.call = 0]
Raised(s, error) ==
    [s EXCEPT !.calls[s.t.call].outcome = "raised",
              !.calls[s.t.call].error = error, !.t.call = 0]

\* ------------------------------------------------------------ _execute_job
\* job.status = ...
SetStatus(s, status) ==
    [s EXCEPT !.j.status = status, !.log = Append(@, status)]

\* finally: await client.close()
Close(s) ==
    [s EXCEPT !.t.pc = "closing"]

\* Variant: the handler records the status and drops the message.
CrashWithoutMessage(s, msg) ==
    Close(SetStatus(s, failed))

\* except Exception as exc: job.status = failed; job.error = str(exc)
Crash(s, msg) ==
    Close([SetStatus(s, failed) EXCEPT !.j.error = msg])

\* Variant: the walk's end reports completed whatever the counters say.
FinishAlwaysCompleted(s) ==
    Close(SetStatus(s, completed))

\* Variant: the walk's end records success only, and nothing otherwise.
FinishOnlyOnSuccess(s) ==
    Close(IF s.j.failed = 0 THEN SetStatus(s, completed) ELSE s)

\* job.status = completed if job.failed == 0 else failed
Finish(s) ==
    Close(SetStatus(s, IF s.j.failed = 0 THEN completed ELSE failed))

\* ----------------------------------------------------------- _upload_pages
Top(s) == s.t.stack[Len(s.t.stack)]

\* ClickUpClient.create_page: the payload carries parent_page_id only when the
\* argument is truthy.
PayloadParent(parent_page_id) ==
    IF Falsy(parent_page_id) THEN None ELSE parent_page_id

\* ClickUpClient.create_page: the content of the payload. Content is a
\* sequence of characters; the notice stands as one item after them.
TruncationNotice == "---*Content truncated (original too large for ClickUp)*"
\* Variant: content of exactly the ceiling's length is cut as well.
PayloadContentAtCeiling(content, max_content_size) ==
    IF Len(content) >= max_content_size
    THEN SubSeq(content, 1, max_content_size) \o <<TruncationNotice>>
    ELSE content
PayloadContent(content, max_content_size) ==
    IF Len(content) > max_content_size
    THEN SubSeq(content, 1, max_content_size) \o <<TruncationNotice>>
    ELSE content

\* Variant: the loop takes the pages of a list from the last to the first.
UploadReversed(s) ==
    LET f == Top(s)
        page == Append(f.pages, ListLen(DOMAIN s.t.request.pages, f.pages) + 1 - f.i)
        pr == Append(f.results, ListLen(DOMAIN s.j.pages, f.results) + 1)
        title == s.t.request.pages[page].title
        call == Call(s.t.id, "createPage", s.t.workspace_id, s.t.doc_id, title,
                     page, PayloadParent(f.parent_page_id))
    IN  StartPost([s EXCEPT !.j.pages = @ @@ (pr :> PageResult(title, "uploading")),
                            !.t.stack[Len(s.t.stack)].pr = pr,
                            !.calls = Append(@, call),
                            !.t.call = Len(s.calls) + 1],
                  "create_page")

\* pr = PageResult(title=page.title, status="uploading"); results.append(pr);
\* await client.create_page(...)
Upload(s) ==
    LET f == Top(s)
        page == Append(f.pages, f.i)
        pr == Append(f.results, ListLen(DOMAIN s.j.pages, f.results) + 1)
        title == s.t.request.pages[page].title
        call == Call(s.t.id, "createPage", s.t.workspace_id, s.t.doc_id, title,
                     page, PayloadParent(f.parent_page_id))
    IN  StartPost([s EXCEPT !.j.pages = @ @@ (pr :> PageResult(title, "uploading")),
                            !.t.stack[Len(s.t.stack)].pr = pr,
                            !.calls = Append(@, call),
                            !.t.call = Len(s.calls) + 1],
                  "create_page")

\* The head of `for page in pages`: the next page of the list if there is one;
\* otherwise this activation returns, to the loop of the activation that
\* called it or, for the outermost one, to _execute_job.
RECURSIVE Loop(_)
Loop(s) ==
    LET f == Top(s)
        n == Len(s.t.stack)
    IN  IF f.i <= ListLen(DOMAIN s.t.request.pages, f.pages)
        THEN Upload(s)
        ELSE IF n = 1
        THEN Finish([s EXCEPT !.t.stack = <<>>])
        ELSE Loop([s EXCEPT !.t.stack =
                        [SubSeq(@, 1, n - 1) EXCEPT ![n - 1].i = @ + 1]])

\* The end of the loop body: on to the next page of the same list.
Continue(s) ==
    Loop([s EXCEPT !.t.stack[Len(s.t.stack)].i = @ + 1])

\* Variant: the id and the counter are recorded, the node's status is not.
UploadedStatusNotSet(s, page_id) ==
    LET pr == Top(s).pr
    IN  [s EXCEPT
            !.j.pages[pr].clickup_page_id = page_id,
            !.j.uploaded = @ + 1,
            !.t.stack[Len(s.t.stack)].page_id = page_id,
            !.t.pc = "pause"]

\* page_id = result.get("id", ""); pr.clickup_page_id = page_id;
\* pr.status = "uploaded"; job.uploaded += 1; await asyncio.sleep(delay)
Uploaded(s, page_id) ==
    LET pr == Top(s).pr
    IN  [s EXCEPT
            !.j.pages[pr].clickup_page_id = page_id,
            !.j.pages[pr].status = "uploaded",
            !.j.uploaded = @ + 1,
            !.t.stack[Len(s.t.stack)].page_id = page_id,
            !.t.pc = "pause"]

\* if page.children: await _upload_pages(pages=page.children,
\*     results=pr.children, parent_page_id=page_id, ...)
Recurse(s) ==
    LET f == Top(s)
        page == Append(f.pages, f.i)
    IN  IF ListLen(DOMAIN s.t.request.pages, page) > 0
        THEN Loop([s EXCEPT !.t.stack = Append(@, Frame(page, f.pr, f.page_id))])
        ELSE Continue(s)

\* Variant: the handler marks the node and leaves the loop.
FailedEndsLoop(s, msg) ==
    LET pr == Top(s).pr
        f == Top(s)
    IN  Loop([s EXCEPT
                !.j.pages[pr].status = "failed",
                !.j.pages[pr].error = msg,
                !.j.failed = @ + 1,
                !.t.stack[Len(s.t.stack)].i =
                    ListLen(DOMAIN s.t.request.pages, f.pages) + 1])

\* Variant: the handler marks the node and then still walks its children.
FailedThenChildren(s, msg) ==
    LET pr == Top(s).pr
    IN  Recurse([s EXCEPT
                    !.j.pages[pr].status = "failed",
                    !.j.pages[pr].error = msg,
                    !.j.failed = @ + 1])

\* Variant: a failed node is taken out of the results again.
FailedDropsNode(s, msg) ==
    LET pr == Top(s).pr
    IN  Continue([s EXCEPT
                    !.j.pages = [p \in DOMAIN @ \ {pr} |-> @[p]],
                    !.j.failed = @ + 1])

\* except Exception as exc: pr.status = "failed"; pr.error = str(exc);
\* job.failed += 1
Failed(s, msg) ==
    LET pr == Top(s).pr
    IN  Continue([s EXCEPT
                    !.j.pages[pr].status = "failed",
                    !.j.pages[pr].error = msg,
                    !.j.failed = @ + 1])

\* ------------------------------------------------- _execute_job, the start
\* Variant: the walk starts with no parent, whatever the target names.
WalkWithoutParent(s) ==
    Loop([s EXCEPT !.t.stack = <<Frame(<<>>, <<>>, None)>>])

\* parent_page_id = request.target.parent_page_id; await _upload_pages(
\*     pages=request.pages, results=job.pages, parent_page_id=parent_page_id)
Walk(s) ==
    Loop([s EXCEPT !.t.stack =
            <<Frame(<<>>, <<>>, s.t.request.target.parent_page_id)>>])

\* job.doc_id = doc_id
SetDoc(s, doc_id) ==
    Walk([s EXCEPT !.t.doc_id = doc_id, !.j.doc_id = doc_id])

\* doc = await client.create_doc(workspace_id, title=request.doc_name,
\*     parent={"id": request.target.space_id, "type": 4})
CreateDoc(s) ==
    LET call == Call(s.t.id, "createDocument", s.t.workspace_id, None,
                     s.t.request.doc_name, <<>>, s.t.request.target.space_id)
    IN  StartPost([s EXCEPT !.calls = Append(@, call), !.t.call = Len(s.calls) + 1],
                  "create_doc")

\* doc_id = request.target.doc_id; if not doc_id: ...
ResolveDoc(s) ==
    LET target == s.t.request.target
    IN  IF Falsy(target.doc_id)
        THEN IF Falsy(target.space_id) THEN Crash(s, NoTarget) ELSE CreateDoc(s)
        ELSE SetDoc(s, target.doc_id)

\* job.workspace_id = workspace_id
SetWorkspace(s, workspace_id) ==
    ResolveDoc([s EXCEPT !.t.workspace_id = workspace_id,
                         !.j.workspace_id = workspace_id])

\* teams = await client.get_teams()
GetTeams(s) ==
    LET call == Call(s.t.id, "listWorkspaces", None, None, "", <<>>, None)
    IN  _get([s EXCEPT !.calls = Append(@, call), !.t.call = Len(s.calls) + 1],
             "get_teams")

\* workspace_id = request.target.workspace_id; if not workspace_id: ...
ResolveWorkspace(s) ==
    LET workspace_id == s.t.request.target.workspace_id
    IN  IF Falsy(workspace_id) THEN GetTeams(s) ELSE SetWorkspace(s, workspace_id)

\* Variant: the task starts its work without marking the job running.
RunningNotMarked(s) ==
    ResolveWorkspace(s)

\* job = _jobs[job_id]; job.status = JobStatus.running
Running(s) ==
    ResolveWorkspace(SetStatus(s, running))

\* d.get("id", "")
GetId(d) == IF d = None THEN "" ELSE d

\* _post returned `data`, to create_doc or to create_page; the remote side
\* names what it created after the call that created it.
Return(s, r) ==
    IF s.t.what = "create_doc"
    THEN LET id == IF r.id THEN DocIds[s.t.call] ELSE None
         IN  SetDoc(Returned(s, id), GetId(id))
    ELSE LET id == IF r.id THEN PageIds[s.t.call] ELSE None
         IN  Uploaded(Returned(s, id), GetId(id))

\* _post raised, out of create_doc or out of create_page.
Raise(s, msg) ==
    IF s.t.what = "create_doc"
    THEN Crash(Raised(s, msg), msg)
    ELSE Failed(Raised(s, msg), msg)

\* ------------------------------------------------------------ the job store
\* _jobs.get(job_id): the reference stored under job_id, 0 for Python's None.
Lookup(store, job_id) ==
    IF \E k \in 1..Len(store) : store[k].job_id = job_id
    THEN store[CHOOSE k \in 1..Len(store) : store[k].job_id = job_id].job
    ELSE 0

\* _jobs[job_id] = job: a new key goes last, a known key keeps its place.
Store(store, job_id, ref) ==
    IF \E k \in 1..Len(store) : store[k].job_id = job_id
    THEN [k \in 1..Len(store) |->
            IF store[k].job_id = job_id THEN [job_id |-> job_id, job |-> ref]
            ELSE store[k]]
    ELSE Append(store, [job_id |-> job_id, job |-> ref])

\* get_job: _jobs.get(job_id)
get_job(job_id) == Lookup(_jobs, job_id)

\* list_jobs: list(_jobs.values()), in the dict's insertion order
list_jobs == [k \in 1..Len(_jobs) |-> _jobs[k].job]

\* list_wiki_jobs: list(reversed(list_jobs()))
list_wiki_jobs == [k \in 1..Len(list_jobs) |-> list_jobs[Len(list_jobs) + 1 - k]]

\* ------------------------------------------------------------------ actions
Bundle(t) ==
    [t |-> tasks[t], j |-> objs[tasks[t].job], calls |-> calls,
     log |-> assigned[tasks[t].job]]

Commit(s) ==
    /\ tasks' = [tasks EXCEPT ![s.t.id] = s.t]
    /\ objs' = [objs EXCEPT ![s.t.job] = s.j]
    /\ calls' = s.calls
    /\ assigned' = [assigned EXCEPT ![s.t.job] = s.log]
    /\ UNCHANGED <<_jobs, settings, remote, handlers, eval, oauth_vars>>

\* Variant: the job is created as running, with nothing yet started.
run_wiki_creation_running(job_id, request) ==
    LET job == JobStatusResponse(job_id, running, _count_pages(request.pages))
    IN  /\ objs' = Append(objs, job)
        /\ _jobs' = Store(_jobs, job_id, Len(objs) + 1)
        /\ tasks' = Append(tasks, Task(Len(tasks) + 1, job_id, request))
        /\ assigned' = Append(assigned, <<running>>)
        /\ UNCHANGED <<calls, settings, remote, oauth_vars>>

\* run_wiki_creation: the job object, the store entry, the background task.
run_wiki_creation(job_id, request) ==
    LET job == JobStatusResponse(job_id, queued, _count_pages(request.pages))
    IN  /\ objs' = Append(objs, job)
        /\ _jobs' = Store(_jobs, job_id, Len(objs) + 1)
        /\ tasks' = Append(tasks, Task(Len(tasks) + 1, job_id, request))
        /\ assigned' = Append(assigned, <<queued>>)
        /\ UNCHANGED <<calls, settings, remote, oauth_vars>>

\* The event loop runs the task for the first time.
Begin(t) ==
    /\ tasks[t].pc = "created"
    /\ LET ref == Lookup(_jobs, tasks[t].job_id)
       IN  Commit(Running([t |-> [tasks[t] EXCEPT !.job = ref], j |-> objs[ref],
                           calls |-> calls, log |-> assigned[ref]]))

\* Variant: a connection error on the GET is retried once.
GetResponseRetrying(t, r) ==
    /\ tasks[t].pc = "get"
    /\ Commit(IF r.status = ConnectionError /\ tasks[t].attempts < 2
              THEN [Bundle(t) EXCEPT !.t.attempts = @ + 1]
              ELSE IF r.status # 200
              THEN Crash(Raised(Bundle(t), ErrorText(r.status)), ErrorText(r.status))
              ELSE IF r.teams = <<>>
              THEN Crash(ReturnedTeams(Bundle(t), r.teams), NoWorkspaces)
              ELSE SetWorkspace(ReturnedTeams(Bundle(t), r.teams), r.teams[1]))

\* ClickUpClient._get answers get_teams: resp.raise_for_status(), then
\* data.get("teams", []); _execute_job takes teams[0]["id"].
GetResponse(t, r) ==
    /\ tasks[t].pc = "get"
    /\ Commit(IF r.status # 200
              THEN Crash(Raised(Bundle(t), ErrorText(r.status)), ErrorText(r.status))
              ELSE IF r.teams = <<>>
              THEN Crash(ReturnedTeams(Bundle(t), r.teams), NoWorkspaces)
              ELSE SetWorkspace(ReturnedTeams(Bundle(t), r.teams), r.teams[1]))

\* resp.raise_for_status(): raises for a 4xx or 5xx status.
IsError(status) == status >= 400

\* Variant: the loop runs once more than configured.
InRangeOneMore(s) ==
    s.t.attempt <= settings.api_retries

\* for attempt in range(self.retries): is this attempt one of the loop's?
InRange(s) ==
    s.t.attempt < settings.api_retries

\* Variant: every error status is retried after a sleep.
AttemptRetryingAll(s, r) ==
    IF r.status = ConnectionError THEN Backoff(s)
    ELSE IF r.status \in {200, 201} THEN Return(s, r)
    ELSE IF IsError(r.status) THEN Backoff(s)
    ELSE NextAttempt(s)

\* The body of the loop, once the attempt is answered.
Attempt(s, r) ==
    IF r.status = ConnectionError THEN Backoff(s)
    ELSE IF r.status \in {200, 201} THEN Return(s, r)
    ELSE IF r.status \in {429, 500, 502, 503} THEN Backoff(s)
    ELSE IF IsError(r.status) THEN Raise(s, ErrorText(r.status))
    ELSE NextAttempt(s)

\* The final attempt, after the loop.
FinalAttempt(s, r) ==
    IF r.status = ConnectionError THEN Raise(s, ErrorText(r.status))
    ELSE IF r.status \notin {200, 201} /\ IsError(r.status)
    THEN Raise(s, ErrorText(r.status))
    ELSE Return(s, r)

\* One attempt of _post is answered.
PostResponse(t, r) ==
    /\ tasks[t].pc = "post"
    /\ LET s == Bundle(t)
       IN  Commit(IF InRange(s) THEN Attempt(s, r) ELSE FinalAttempt(s, r))

\* _async_sleep(delay) is over: `continue`.
BackoffDone(t) ==
    /\ tasks[t].pc = "backoff"
    /\ Commit(NextAttempt(Bundle(t)))

\* asyncio.sleep(delay) after an upload is over.
PauseDone(t) ==
    /\ tasks[t].pc = "pause"
    /\ Commit(Recurse(Bundle(t)))

\* client.close() is over: the task ends.
Closed(t) ==
    /\ tasks[t].pc = "closing"
    /\ Commit([Bundle(t) EXCEPT !.t.pc = "done"])

\* ------------------------------------------------- the job-level specification
\* One job, any tree of up to MaxNodes pages, any target; every attempt meets
\* a connection error, a success or a retryable status; the client retries
\* once or not at all.
JobTargets == Targets({None, "ws1"}, {None, "sp1"}, {None, "doc1"}, {None, "pp1"})
JobStatuses == {ConnectionError, 200, 503}
JobSettings == SettingsSet({0, 1}, {3})

Init ==
    /\ _jobs = <<>>
    /\ objs = <<>>
    /\ tasks = <<>>
    /\ calls = <<>>
    /\ assigned = <<>>
    /\ handlers = <<>>
    /\ OAuthEmpty
    /\ eval = NoEval
    /\ settings \in JobSettings
    /\ remote = JobStatuses

Submit ==
    /\ tasks = <<>>
    /\ \E request \in Requests(Trees(MaxNodes), JobTargets) :
            run_wiki_creation("j1", request)
    /\ UNCHANGED <<handlers, eval>>

\* What the event loop and the remote side can do for task t.
Step(t, statuses) ==
    /\ t \in 1..Len(tasks)
    /\ \/ Begin(t)
       \/ \E r \in GetResponses : GetResponse(t, r)
       \/ \E r \in PostResponses(statuses) : PostResponse(t, r)
       \/ BackoffDone(t)
       \/ PauseDone(t)
       \/ Closed(t)

Begins == \E t \in 1..Len(tasks) : Begin(t)
GetResponds == \E t \in 1..Len(tasks), r \in GetResponses : GetResponse(t, r)
PostResponds ==
    \E t \in 1..Len(tasks), r \in PostResponses(remote) : PostResponse(t, r)
BackoffEnds == \E t \in 1..Len(tasks) : BackoffDone(t)
PauseEnds == \E t \in 1..Len(tasks) : PauseDone(t)
Closes == \E t \in 1..Len(tasks) : Closed(t)

Next ==
    \/ Submit
    \/ Begins
    \/ GetResponds
    \/ PostResponds
    \/ BackoffEnds
    \/ PauseEnds
    \/ Closes

Spec == Init /\ [][Next]_vars

\* The same job under fairness, on the smaller trees: the event loop runs
\* every task that can run, every sleep ends and every request is answered
\* or fails, so the job's task is never ready forever without taking its
\* next step.
LiveSubmit ==
    /\ tasks = <<>>
    /\ \E request \in Requests(Trees(MaxLiveNodes), JobTargets) :
            run_wiki_creation("j1", request)
    /\ UNCHANGED <<handlers, eval>>

LiveNext ==
    \/ LiveSubmit
    \/ Begins
    \/ GetResponds
    \/ PostResponds
    \/ BackoffEnds
    \/ PauseEnds
    \/ Closes

LiveSpec == Init /\ [][LiveNext]_vars /\ WF_vars(Step(1, JobStatuses))

\* ------------------------------------------- the client-level specification
\* One job of one page, so that the client's calls are seen one at a time:
\* up to MaxPostRetries retries, base delays of 1 and 3 (seconds), and a
\* remote side that answers either with retryable statuses only or with any
\* of success, other 2xx, client error, retryable status, connection error.
MaxPostRetries == 3
Retryable == {429, 500, 502, 503}
PostStatuses == {ConnectionError, 200, 201, 202, 401, 404} \cup Retryable
\* The 2xx statuses the remote side answers with.
Successful == {200, 201, 202}
PostRemotes == {Retryable, PostStatuses, Successful}
PostTargets == Targets({None, "ws1"}, {"sp1"}, {None, "doc1"}, {None})
PostSettings == SettingsSet(0..MaxPostRetries, {1, 3})

PostInit ==
    /\ _jobs = <<>>
    /\ objs = <<>>
    /\ tasks = <<>>
    /\ calls = <<>>
    /\ assigned = <<>>
    /\ handlers = <<>>
    /\ OAuthEmpty
    /\ eval = NoEval
    /\ settings \in PostSettings
    /\ remote \in PostRemotes

PostSubmit ==
    /\ tasks = <<>>
    /\ \E request \in Requests(TreesOfSize(1), PostTargets) :
            run_wiki_creation("j1", request)
    /\ UNCHANGED <<handlers, eval>>

PostNext ==
    \/ PostSubmit
    \/ Begins
    \/ GetResponds
    \/ PostResponds
    \/ BackoffEnds
    \/ PauseEnds
    \/ Closes

PostSpec == PostInit /\ [][PostNext]_vars

\* ------------------------------------------------------------------- claims
Begun(t) == tasks[t].pc # "created"
\* The task has left the try block of _execute_job.
Over(t) == tasks[t].pc \in {"closing", "done"}
JobOf(t) == objs[tasks[t].job]
CallsOf(t, op) == {c \in 1..Len(calls) : calls[c].task = t /\ calls[c].op = op}
RaisedOf(t, op) == {c \in CallsOf(t, op) : calls[c].outcome = "raised"}
ReturnedOf(t, op) == {c \in CallsOf(t, op) : calls[c].outcome = "returned"}
Last(q) == q[Len(q)]

StatusPaths ==
    {<<queued>>, <<queued, running>>, <<queued, running, completed>>,
     <<queued, running, failed>>}

C2_CompletedOnlyWithoutFailures ==
    \A t \in 1..Len(tasks) : Begun(t) =>
        LET j == JobOf(t)
        IN  /\ j.status = completed =>
                /\ Over(t)
                /\ j.failed = 0
                /\ \A p \in DOMAIN tasks[t].request.pages :
                        \E c \in ReturnedOf(t, "createPage") : calls[c].page = p
            /\ (Over(t) /\ RaisedOf(t, "createPage") # {}) => j.status = failed
            /\ \A c \in ReturnedOf(t, "createPage") :
                /\ calls[c].page \in DOMAIN j.pages
                /\ j.pages[calls[c].page].status = "uploaded"
                /\ j.pages[calls[c].page].clickup_page_id = GetId(calls[c].result)

\* A failed job that still carries an uploaded page with its remote id.
C2_Witness ==
    \E t \in 1..Len(tasks) :
        /\ Over(t)
        /\ JobOf(t).status = failed
        /\ RaisedOf(t, "createPage") # {}
        /\ \E c \in ReturnedOf(t, "createPage") :
                JobOf(t).pages[calls[c].page].clickup_page_id = PageIds[c]

\* The messages of the precondition failures task t has met: workspace
\* discovery raised or found nothing, the target names neither a doc nor a
\* space, document creation raised.
PreconditionErrors(t) ==
    LET target == tasks[t].request.target
        found == {c \in ReturnedOf(t, "listWorkspaces") : calls[c].teams # <<>>}
    IN  {calls[c].error : c \in RaisedOf(t, "listWorkspaces") \cup RaisedOf(t, "createDocument")}
        \cup {NoWorkspaces : c \in ReturnedOf(t, "listWorkspaces") \ found}
        \cup (IF /\ Falsy(target.doc_id) /\ Falsy(target.space_id)
                 /\ (~Falsy(target.workspace_id) \/ found # {})
              THEN {NoTarget} ELSE {})

\* C4: after a precondition failure the job is failed with the exception's
\* message as error, uploaded = 0, failed = 0, no result node and no
\* createPage call; a job failed by failed nodes has an empty error.
C4_PreconditionFailure ==
    \A t \in 1..Len(tasks) : Begun(t) =>
        LET j == JobOf(t)
        IN  /\ \A m \in PreconditionErrors(t) :
                /\ j.status = failed
                /\ j.error = m
                /\ j.uploaded = 0 /\ j.failed = 0
                /\ j.pages = <<>>
                /\ CallsOf(t, "createPage") = {}
            /\ (j.status = failed /\ RaisedOf(t, "createPage") # {}) => j.error = ""

\* Document creation raised after workspace discovery had succeeded.
C4_Witness ==
    \E t \in 1..Len(tasks) :
        /\ RaisedOf(t, "createDocument") # {}
        /\ ReturnedOf(t, "listWorkspaces") # {}
        /\ JobOf(t).error = ErrorText(503)

\* C5: for every createPage call that raised, the page's result node is
\* failed with the call's message; failed counts exactly these calls; and no
\* createPage call is made for a descendant of such a page.
C5_NodeFailure ==
    \A t \in 1..Len(tasks) : Begun(t) =>
        LET j == JobOf(t)
        IN  /\ \A c \in RaisedOf(t, "createPage") :
                /\ calls[c].page \in DOMAIN j.pages
                /\ j.pages[calls[c].page].status = "failed"
                /\ j.pages[calls[c].page].error = calls[c].error
                /\ \A d \in CallsOf(t, "createPage") :
                        d # c => ~IsPrefix(calls[c].page, calls[d].page)
            /\ j.failed = Cardinality(RaisedOf(t, "createPage"))

\* A page with children failed on the final attempt, after a retry; the walk is over.
C5_Witness ==
    \E t \in 1..Len(tasks) :
        /\ Over(t)
        /\ tasks[t].attempts = settings.api_retries + 1
        /\ tasks[t].slept # <<>>
        /\ \E c \in RaisedOf(t, "createPage") :
                Descendants(DOMAIN tasks[t].request.pages, calls[c].page) # {}

\* C3: under fair scheduling, with every request answered, a submitted job
\* eventually is completed or failed; nothing in the model polls it.
C3_JobTerminates ==
    (Len(objs) >= 1) ~> (Len(objs) >= 1 /\ objs[1].status \in {completed, failed})

\* A job that ended after its last request had to be retried.
C3_Witness ==
    /\ Len(tasks) >= 1
    /\ tasks[1].pc = "done"
    /\ tasks[1].slept # <<>>
    /\ objs[1].status = completed
    /\ objs[1].uploaded = MaxLiveNodes

\* C6: once a page's createPage call has raised, every descendant of the page
\* is in the result tree with status pending.
C6_DescendantsPending ==
    \A t \in 1..Len(tasks) : Begun(t) =>
        \A c \in RaisedOf(t, "createPage") :
            \A d \in Descendants(DOMAIN tasks[t].request.pages, calls[c].page) :
                /\ d \in DOMAIN JobOf(t).pages
                /\ JobOf(t).pages[d].status = "pending"

\* The walk of task t was started (no precondition failed) and is over.
WalkOver(t) == Over(t) /\ tasks[t].doc_id # None

\* C7: when the walk is over, every page all of whose ancestors were created
\* has been attempted, whatever failed before it (so after a failure the later
\* siblings of the page and of its ancestors are attempted); and the failure
\* of a page is not the job's error.
C7_SiblingsStillAttempted ==
    \A t \in 1..Len(tasks) : WalkOver(t) =>
        /\ \A p \in DOMAIN tasks[t].request.pages :
                (\A a \in Ancestors(p) :
                    \E c \in ReturnedOf(t, "createPage") : calls[c].page = a)
                => \E c \in CallsOf(t, "createPage") :
                        calls[c].page = p /\ calls[c].outcome # "pending"
        /\ JobOf(t).error = ""
        /\ JobOf(t).status \in {completed, failed}

\* P(X, Y), Q: X failed; its later sibling Y and its parent's later sibling Q
\* were both created after that.
C7_Witness ==
    \E t \in 1..Len(tasks) :
        /\ WalkOver(t)
        /\ \E x \in RaisedOf(t, "createPage"), y, q \in ReturnedOf(t, "createPage") :
            /\ calls[x].page = <<1, 1>>
            /\ calls[y].page = <<1, 2>>
            /\ calls[q].page = <<2>>
            /\ x < y /\ y < q

\* The createPage calls of task t, in the order issued.
CreatePageSeq(t) ==
    SelectSeq(calls, LAMBDA c : c.task = t /\ c.op = "createPage")
TitlesOf(q) == [i \in 1..Len(q) |-> q[i].title]
\* A(B(D), C)
ExampleTree == WikiPages({<<1>>, <<1, 1>>, <<1, 1, 1>>, <<1, 2>>})

\* C8: the pages of a job's createPage calls are, in the order of the calls,
\* strictly increasing in the pre-order of the input tree (a page before its
\* descendants, a list from first to last); for A(B(D), C) with every call
\* succeeding the calls are for A, B, D, C.
C8_PreOrder ==
    \A t \in 1..Len(tasks) :
        LET q == CreatePageSeq(t)
        IN  /\ \A i, k \in 1..Len(q) : i < k => LexLess(q[i].page, q[k].page)
            /\ \A i \in 1..Len(q) : q[i].page \in DOMAIN tasks[t].request.pages
            /\ (/\ tasks[t].request.pages = ExampleTree
                /\ WalkOver(t)
                /\ JobOf(t).failed = 0) => TitlesOf(q) = <<"A", "B", "D", "C">>

\* The example tree was uploaded whole.
C8_Witness ==
    \E t \in 1..Len(tasks) :
        /\ tasks[t].request.pages = ExampleTree
        /\ WalkOver(t)
        /\ JobOf(t).status = completed
        /\ TitlesOf(CreatePageSeq(t)) = <<"A", "B", "D", "C">>

\* C9: a createPage call for a page below the top level comes after a
\* createPage call for its parent that returned, and the parent reference it
\* sends is the remote id recorded on the parent's result node.
C9_ChildSendsParentId ==
    \A t \in 1..Len(tasks) :
        \A d \in CallsOf(t, "createPage") :
            Len(calls[d].page) > 1 =>
                /\ \E c \in ReturnedOf(t, "createPage") :
                        c < d /\ calls[c].page = ParentOf(calls[d].page)
                /\ calls[d].parent_page_id =
                        JobOf(t).pages[ParentOf(calls[d].page)].clickup_page_id

Uploading(t) == {p \in DOMAIN JobOf(t).pages : JobOf(t).pages[p].status = "uploading"}
PendingOf(t) == {c \in CallsOf(t, "createPage") : calls[c].outcome = "pending"}

\* C10: a job has at most one result node in status uploading, namely the
\* page of its one createPage call not yet answered; every earlier createPage
\* call of the job has returned or raised; and a completed or failed job has
\* no node in status uploading.
C10_OneUploadAtATime ==
    \A t \in 1..Len(tasks) : Begun(t) =>
        /\ Cardinality(Uploading(t)) <= 1
        /\ Uploading(t) = {calls[c].page : c \in PendingOf(t)}
        /\ \A c, d \in CallsOf(t, "createPage") : c < d => calls[c].outcome # "pending"
        /\ JobOf(t).status \in {completed, failed} => Uploading(t) = {}

\* A child is being uploaded, during a backoff, after an earlier page failed.
C10_Witness ==
    \E t \in 1..Len(tasks) :
        /\ tasks[t].pc = "backoff"
        /\ \E p \in Uploading(t) : Len(p) = 2
        /\ JobOf(t).failed = 1
        /\ JobOf(t).uploaded = 2

\* -------------------------------------------- the store-level specification
\* Up to MaxJobs jobs of one page each, submitted at any time and run in any
\* interleaving, with pollers reading the store in between.  A job id is the
\* first 12 hex digits of a random UUID: any value of JobIds, each time.
MaxJobs == 2
\* How deep the children of a page in a payload text are nested.
MaxPageDepth == 1
\* The longest page content, and the largest ceiling, in characters.
MaxContentLen == 4
JobIds == {"j1", "j2"}
StoreTargets == Targets({None, "ws1"}, {None}, {"doc1"}, {None})
StoreSettings == SettingsSet({1}, {3})
StoreStatuses == {200, 503}

StoreInit ==
    /\ _jobs = <<>>
    /\ objs = <<>>
    /\ tasks = <<>>
    /\ calls = <<>>
    /\ assigned = <<>>
    /\ handlers = <<>>
    /\ OAuthEmpty
    /\ eval = NoEval
    /\ settings \in StoreSettings
    /\ remote = StoreStatuses

StoreSubmit ==
    /\ Len(tasks) < MaxJobs
    /\ \E job_id \in JobIds, request \in Requests(TreesOfSize(1), StoreTargets) :
            run_wiki_creation(job_id, request)
    /\ UNCHANGED <<handlers, eval>>

\* get_wiki_job, list_wiki_jobs: a poller reads the store.
Gets ==
    /\ \E job_id \in JobIds : get_job(job_id) \in 0..Len(objs)
    /\ UNCHANGED vars
Lists ==
    /\ Len(list_wiki_jobs) = Len(_jobs)
    /\ UNCHANGED vars

StoreNext ==
    \/ StoreSubmit
    \/ Gets
    \/ Lists
    \/ Begins
    \/ GetResponds
    \/ PostResponds
    \/ BackoffEnds
    \/ PauseEnds
    \/ Closes

StoreSpec == StoreInit /\ [][StoreNext]_vars

\* ----------------------------------------- the function-level specification
\* One application of one function to one argument drawn from a bounded set.
Paths ==
    {<<"T1", "v", "dc", "D1">>, <<"T1", "v", "dc", "D1", "P1">>,
     <<"T1", "v", "dc", "D1", "">>, <<"T1", "v", "dc", "D1", "P1", "x">>,
     <<"T1", "v", "s", "S1">>, <<"T1", "v", "s", "S1", "x">>,
     <<"T1", "v", "li", "L1">>, <<"T1", "v", "dc">>, <<"T1", "v", "s", "">>,
     <<"", "v", "s", "S1">>, <<"T1">>, <<>>}
Urls ==
    {Url(scheme, host, path) :
        scheme \in {"https:", "http:", "ftp:"},
        host \in {"app.clickup.com", "example.com"},
        path \in Paths}
OwnIds == {None, "", "own"}
TargetEvals == {Eval("TargetLocation", f) : f \in TargetFields(Urls \cup {NoUrl}, OwnIds)}
TextEvals == {Eval("_try_parse_wiki_json", text) : text \in Texts(MaxPageDepth)}
PayloadEvals == {Eval("_normalize_wiki_payload", data) : data \in Payloads(MaxPageDepth)}
Characters == {"a", "b"}
Contents == UNION {[1..n -> Characters] : n \in 0..MaxContentLen}
ContentEvals ==
    {Eval("create_page", [content |-> content, max_content_size |-> ceiling]) :
        content \in Contents, ceiling \in 0..MaxContentLen}

\* Texts handed to _repair_json: a JSON text as it is, with a trailing comma,
\* with a raw line break or a backslash before a letter in one or in every
\* string value, cut off before its last token, and cut off after a line break.
WithEveryLineBreak(text) ==
    [i \in 1..Len(text) |->
        IF i > 1 /\ text[i].t = "s" /\ text[i - 1] = P(":") THEN Sctl(text[i].v)
        ELSE text[i]]
CutOff(text) == SubSeq(text, 1, Len(text) - 1)
Damages(text) ==
    {text, WithTrailingComma(text), WithLineBreak(text), WithBadEscape(text),
     WithEveryLineBreak(text), WithBadEscape(WithEveryLineBreak(text)),
     CutOff(text), CutOff(WithLineBreak(text))}
MaxFixes == 2
RepairEvals ==
    {Eval("_repair_json", [text |-> text, max_fixes |-> limit]) :
        text \in PlainTexts \cup UNION {Damages(Dump(x)) : x \in Payloads(0)},
        limit \in 0..MaxFixes}

FnInit ==
    /\ _jobs = <<>>
    /\ objs = <<>>
    /\ tasks = <<>>
    /\ calls = <<>>
    /\ assigned = <<>>
    /\ handlers = <<>>
    /\ OAuthEmpty
    /\ settings \in JobSettings
    /\ remote = JobStatuses
    /\ \/ eval \in TargetEvals
       \/ eval \in TextEvals
       \/ eval \in PayloadEvals
       \/ eval \in ContentEvals
       \/ eval \in RepairEvals

\* The function is applied: `ret` is what it returns.
Apply(op, ret) ==
    /\ eval.op = op
    /\ ~eval.done
    /\ eval' = [eval EXCEPT !.done = TRUE, !.ret = ret]
    /\ UNCHANGED <<_jobs, objs, tasks, calls, settings, remote, assigned, handlers, oauth_vars>>

ConstructsTarget == Apply("TargetLocation", TargetLocation(eval.arg))
Extracts == Apply("_try_parse_wiki_json", _try_parse_wiki_json(eval.arg))
Normalizes == Apply("_normalize_wiki_payload", _normalize_wiki_payload(eval.arg))
CreatesPage ==
    Apply("create_page", PayloadContent(eval.arg.content, eval.arg.max_content_size))

Repairs == Apply("_repair_json", Repair(eval.arg.text, eval.arg.max_fixes))

FnNext ==
    \/ ConstructsTarget
    \/ Extracts
    \/ Normalizes
    \/ CreatesPage
    \/ Repairs

FnSpec == FnInit /\ [][FnNext]_vars

\* ------------------------------------------- the router-level specification
\* Up to MaxRequests HTTP requests to the REST router, with or without the
\* X-Api-Secret header, on a server with or without API_SECRET and
\* CLICKUP_API_KEY; the jobs they create are of one page and run as in the
\* job-level specification, without retries.
MaxRequests == 1
\* The sleeps of GET /wiki/create: for _ in range(90).
PollLimit == 90
\* uuid.uuid4().hex[:12] of the k-th job.
RouterJobIds == <<"j1", "j2", "j3", "j4">>
Headers == {None, "wrong", "s3cret"}
RouterStatuses == {200, 503}
RouterSettings ==
    {s @@ [api_secret |-> secret, clickup_api_key |-> key] :
        s \in SettingsSet({0}, {3}), secret \in {"", "s3cret"}, key \in {"", "key"}}

\* One request in the router: the header it came with, where its handler is
\* ("sleeping" between two polls, "done" once it has responded), the handler's
\* locals and the response.
Handler(endpoint, x_api_secret) ==
    [endpoint |-> endpoint, x_api_secret |-> x_api_secret, pc |-> "done",
     given |-> <<>>, wiki_payload |-> JNull, fetched |-> FALSE, job_id |-> None,
     polls |-> 0, response |-> <<>>]
\* What the client gets: a response of the handler, an HTTPException turned
\* into its status code, or 500 for any other exception.
Response(status_code, body) == [status_code |-> status_code, body |-> body, raised |-> ""]
HTTPException(status_code, detail) ==
    [status_code |-> status_code, body |-> [detail |-> detail], raised |-> "HTTPException"]
Unhandled(exc) ==
    [status_code |-> 500, body |-> [detail |-> "Internal Server Error"], raised |-> exc]

RouterInit ==
    /\ _jobs = <<>>
    /\ objs = <<>>
    /\ tasks = <<>>
    /\ calls = <<>>
    /\ assigned = <<>>
    /\ handlers = <<>>
    /\ OAuthEmpty
    /\ eval = NoEval
    /\ settings \in RouterSettings
    /\ remote = RouterStatuses

\* The handler ends without having created a job.
Responds(h, response) ==
    /\ handlers' = Append(handlers, [h EXCEPT !.response = response])
    /\ UNCHANGED <<_jobs, objs, tasks, calls, settings, remote, assigned, eval, oauth_vars>>

\* job_id = await run_wiki_creation(request, settings), and what follows it.
Creates(h, request, pc, response) ==
    LET job_id == RouterJobIds[Len(tasks) + 1]
    IN  /\ run_wiki_creation(job_id, request)
        /\ handlers' = Append(handlers, [h EXCEPT !.job_id = job_id, !.pc = pc,
                                                  !.response = response])
        /\ UNCHANGED eval

\* verify_api_secret raises 401.
verify_api_secret(x_api_secret) ==
    settings.api_secret # "" /\ settings.api_secret # x_api_secret
Unauthorized == HTTPException(401, "Invalid or missing X-Api-Secret header")

\* POST /wiki
create_wiki(x_api_secret, fields, pages) ==
    LET h == [Handler("POST /wiki", x_api_secret) EXCEPT !.given = fields]
        request == [doc_name |-> "Wiki", target |-> TargetLocation(fields),
                    pages |-> pages]
    IN  IF verify_api_secret(x_api_secret) THEN Responds(h, Unauthorized)
        ELSE IF settings.clickup_api_key = ""
        THEN Responds(h, HTTPException(500, "CLICKUP_API_KEY is not configured on the server"))
        ELSE Creates(h, request, "done",
                     Response(202, [job_id |-> RouterJobIds[Len(tasks) + 1],
                                    status |-> queued]))

\* GET /wiki/{job_id}
get_wiki_job(x_api_secret, job_id) ==
    LET h == Handler("GET /wiki/{job_id}", x_api_secret)
    IN  IF verify_api_secret(x_api_secret) THEN Responds(h, Unauthorized)
        ELSE IF get_job(job_id) = 0
        THEN Responds(h, HTTPException(404, "Job not found"))
        ELSE Responds(h, Response(200, [job_id |-> objs[get_job(job_id)].job_id,
                                        status |-> objs[get_job(job_id)].status]))

\* GET /wiki
GetWikiList(x_api_secret) ==
    LET h == Handler("GET /wiki", x_api_secret)
    IN  IF verify_api_secret(x_api_secret) THEN Responds(h, Unauthorized)
        ELSE Responds(h, Response(200, [k \in 1..Len(list_wiki_jobs) |->
                                            [job_id |-> objs[list_wiki_jobs[k]].job_id,
                                             status |-> objs[list_wiki_jobs[k]].status]]))

\* GET /health
health(x_api_secret) ==
    Responds(Handler("GET /health", x_api_secret), Response(200, [status |-> "ok"]))

\* GET /wiki/create, up to the first sleep.
InvalidPages == Response(400, [text |-> "ERROR: Invalid pages parameter"])
\* The handler once the pages are built: the request, the job, the first sleep.
StartsJob(h, fields, request) ==
    IF request.raised # "" THEN Responds(h, Unhandled(request.raised))
    ELSE Creates([h EXCEPT !.given = fields], request.request, "sleeping", <<>>)
\* The handler inside its try block, after json.loads(pages).
BuildsPages(h, fields, doc_name, wiki_pages) ==
    IF wiki_pages.raised = ValidationError THEN Responds(h, InvalidPages)
    ELSE IF wiki_pages.raised # "" THEN Responds(h, Unhandled(wiki_pages.raised))
    ELSE StartsJob(h, fields,
                   WikiCreateRequest(JStr(doc_name), TargetLocation(fields), wiki_pages.out))
ParsesPages(h, fields, doc_name, raw_pages) ==
    IF ~raw_pages.ok THEN Responds(h, InvalidPages)
    ELSE IF ~IsList(raw_pages.val) \/ raw_pages.val.v = <<>> THEN Responds(h, InvalidPages)
    ELSE BuildsPages(h, fields, doc_name, _build_pages(raw_pages.val))
create_wiki_get(x_api_secret, url, pages, doc_name) ==
    LET h == Handler("GET /wiki/create", x_api_secret)
        fields == [url |-> UrlParts(url), workspace_id |-> None, doc_id |-> None,
                   parent_page_id |-> None, space_id |-> None]
    IN  IF settings.clickup_api_key = ""
        THEN Responds(h, Response(500, [text |-> "ERROR: CLICKUP_API_KEY is not configured on the server."]))
        ELSE ParsesPages(h, fields, doc_name, json_loads(pages))

\* The text the handler builds from the job.
Report(job) ==
    [headline |-> IF job.status = completed THEN "WIKI CREATION COMPLETED"
                  ELSE "WIKI CREATION FAILED",
     job_id |-> job.job_id, status |-> job.status, doc_id |-> job.doc_id,
     uploaded |-> job.uploaded, failed |-> job.failed, error |-> job.error]

\* for _ in range(90): the sleep that has just ended was the last one.
LoopEnds(polls) == polls = PollLimit

\* GET /wiki/create: await asyncio.sleep(2) is over; the job is looked up,
\* and after a break or the last sleep the response is built.
Wakes(i) ==
    LET h == handlers[i]
        polls == h.polls + 1
        job == get_job(h.job_id)
        break == job # 0 /\ objs[job].status \in {completed, failed}
    IN  /\ h.pc = "sleeping"
        /\ handlers' =
              [handlers EXCEPT ![i] =
                  IF break \/ LoopEnds(polls)
                  THEN [h EXCEPT !.polls = polls, !.pc = "done",
                                 !.response =
                                    IF job = 0
                                    THEN Response(500, [text |-> "ERROR: Job not found."])
                                    ELSE Response(200, Report(objs[job]))]
                  ELSE [h EXCEPT !.polls = polls]]
        /\ UNCHANGED <<_jobs, objs, tasks, calls, settings, remote, assigned, eval, oauth_vars>>

\* POST /webhook/clickup
\* The handler from its try block on: the payload has been located.
Validates(h, built) ==
    IF built.raised # ""
    THEN Responds(h, Response(200, [status |-> "error", message |-> built.raised]))
    ELSE Creates([h EXCEPT !.given = built.given], built.request, "done",
                 Response(200, [status |-> "accepted",
                                job_id |-> RouterJobIds[Len(tasks) + 1],
                                total_pages |-> _count_pages(built.request.pages)]))
\* The handler after its search for the payload.
Locates(h, found) ==
    IF found.raised # ""
    THEN Responds([h EXCEPT !.fetched = found.fetched], Unhandled(found.raised))
    ELSE IF ~Truthy(found.ret)
    THEN Responds([h EXCEPT !.fetched = found.fetched],
                  Response(200, [status |-> "ignored"]))
    ELSE Validates([h EXCEPT !.wiki_payload = found.ret, !.fetched = found.fetched],
                   WebhookRequest(found.ret))
webhook_clickup(x_api_secret, body_text, payload_param, answer) ==
    LET h == Handler("POST /webhook/clickup", x_api_secret)
    IN  IF settings.clickup_api_key = ""
        THEN Responds(h, HTTPException(500, "CLICKUP_API_KEY not configured"))
        ELSE IF IsTest(body_text, RequestData(body_text))
        THEN Responds(h, Response(200, [status |-> "ok"]))
        ELSE Locates(h, FindPayload(RequestData(body_text), payload_param,
                                    body_text, answer))

\* What the clients send.
RouterTargets ==
    TargetFields({NoUrl, UrlParts(SpaceUrl), UrlParts(OtherUrl), UrlParts(ForeignUrl)},
                 {None}) \cup
    {[url |-> UrlParts(OtherUrl), workspace_id |-> None, space_id |-> None,
      doc_id |-> "doc1", parent_page_id |-> None]}
GoodPage == JObj(("title" :> JStr("A")) @@ ("content" :> JStr("c")))
OddPage == JObj(("title" :> JStr("A")) @@ ("children" :> JNull))
PagesParams ==
    {Dump(JArr(<<GoodPage>>)), Dump(JArr(<<>>)), <<Word>>, Dump(JArr(<<OddPage>>)),
     Dump(JArr(<<JObj("title" :> JNum)>>))}
GoodPayload == JObj(("target" :> JStr(SpaceUrl)) @@ ("pages" :> JArr(<<GoodPage>>)))
Bodies ==
    {<<>>,
     <<Word, Word, Word, Word>>,
     Dump(GoodPayload),
     Dump(JObj(("target" :> JStr(SpaceUrl)) @@ ("pages" :> JArr(<<OddPage>>)))),
     Dump(JObj(("target" :> JStr(SpaceUrl)) @@ ("pages" :> JArr(<<>>)))),
     Dump(JObj("pages" :> JArr(<<OddPage>>))),
     Dump(JObj(("doc_name" :> JStr("Wiki")) @@ ("pages" :> JArr(<<GoodPage>>)))),
     Dump(JObj(("doc_name" :> JStr("Wiki")) @@ ("target_url" :> JStr(SpaceUrl)) @@
               ("pages" :> JArr(<<GoodPage>>)))),
     <<Word>> \o Dump(JObj(("target_url" :> JStr(OtherUrl)) @@
                           ("pages" :> JArr(<<GoodPage>>)))) \o <<Word>>,
     Dump(JObj("description" :> JText(Dump(GoodPayload)))),
     Dump(JObj("task_id" :> JStr("86c8ce274")))}
PayloadParams == {<<>>, Dump(GoodPayload), Dump(JObj("pages" :> JArr(<<OddPage>>)))}
\* What client.get_task meets: an error, or a task with its description.
TaskAnswers ==
    {JNull,
     JObj("description" :> JText(Dump(GoodPayload))),
     JObj("description" :> JText(Dump(JObj("pages" :> JArr(<<OddPage>>))))),
     JObj("description" :> JText(<<Word, Word, Word, Word>>))}

Arrives == Len(handlers) < MaxRequests
PostsWiki ==
    /\ Arrives
    /\ \E x_api_secret \in Headers, fields \in RouterTargets, pages \in TreesOfSize(1) :
            create_wiki(x_api_secret, fields, pages)
GetsWikiJob ==
    /\ Arrives
    /\ \E x_api_secret \in Headers, job_id \in {"j1", "j2"} :
            get_wiki_job(x_api_secret, job_id)
GetsWikiList == Arrives /\ \E x_api_secret \in Headers : GetWikiList(x_api_secret)
GetsHealth == Arrives /\ \E x_api_secret \in Headers : health(x_api_secret)
GetsWikiCreate ==
    /\ Arrives
    /\ \E x_api_secret \in Headers, url \in {SpaceUrl, OtherUrl}, pages \in PagesParams :
            create_wiki_get(x_api_secret, url, pages, "Wiki")
SleepEnds == \E i \in 1..Len(handlers) : Wakes(i)
PostsWebhook ==
    /\ Arrives
    /\ \E x_api_secret \in Headers, body_text \in Bodies,
          payload_param \in PayloadParams, answer \in TaskAnswers :
            webhook_clickup(x_api_secret, body_text, payload_param, answer)
RouterNext ==
    \/ PostsWiki
    \/ GetsWikiJob
    \/ GetsWikiList
    \/ GetsHealth
    \/ GetsWikiCreate
    \/ SleepEnds
    \/ PostsWebhook
    \/ Begins
    \/ GetResponds
    \/ PostResponds
    \/ PauseEnds
    \/ Closes

RouterSpec == RouterInit /\ [][RouterNext]_vars

\* ------------------------------------------------------ the client's calls
\* C11: one call of _post makes at most retries + 1 network attempts,
\* whatever the remote side answers.
C11_AttemptsBounded ==
    \A t \in 1..Len(tasks) : tasks[t].attempts <= settings.api_retries + 1

\* A call that used every attempt it has, after at least two retries.
C11_Witness ==
    \E t \in 1..Len(tasks) :
        /\ tasks[t].pc = "post"
        /\ settings.api_retries >= 2
        /\ tasks[t].attempts = settings.api_retries + 1

\* The calls of _post a task has made, in the order issued.
PostCalls(t) == CallsOf(t, "createDocument") \cup CallsOf(t, "createPage")
\* The first k sleeps of the schedule: base, 2 * base, 4 * base, ...
Delays(k) == [i \in 1..k |-> settings.api_retry_base_delay * (2 ^ (i - 1))]

\* C12: when every attempt of a call of _post meets a retryable status
\* (429, 500, 502, 503), the call makes exactly retries + 1 attempts, sleeps
\* base_delay * 2^i after attempt i (counted from 0) and before the next
\* attempt goes out, and then raises.
C12_RetrySchedule ==
    remote \subseteq Retryable =>
        \A t \in 1..Len(tasks) :
            LET task == tasks[t]
                n == settings.api_retries
            IN  /\ task.pc # "pause"
                /\ task.pc = "post" =>
                        /\ task.attempts <= n + 1
                        /\ task.slept = Delays(task.attempts - 1)
                /\ task.pc = "backoff" =>
                        /\ task.attempts <= n
                        /\ task.slept = Delays(task.attempts)
                /\ (task.pc \in {"closing", "done"} /\ PostCalls(t) # {}) =>
                        /\ task.attempts = n + 1
                        /\ task.slept = Delays(n)
                        /\ \A c \in PostCalls(t) :
                                /\ calls[c].outcome = "raised"
                                /\ calls[c].error \in {ErrorText(x) : x \in Retryable}

\* Three retries on a base delay of 1: sleeps of 1, 2 and 4, four attempts,
\* and the call has raised.
C12_Witness ==
    /\ remote \subseteq Retryable
    /\ settings = [api_retries |-> 3, api_retry_base_delay |-> 1]
    /\ \E t \in 1..Len(tasks) :
            /\ tasks[t].pc = "closing"
            /\ tasks[t].attempts = 4
            /\ tasks[t].slept = <<1, 2, 4>>
            /\ \E c \in PostCalls(t) : calls[c].outcome = "raised"

\* The answers with a status that is neither 2xx nor retryable.
FatalStatuses ==
    {x \in PostStatuses \ {ConnectionError} : (x < 200 \/ x >= 300) /\ x \notin Retryable}

\* C13: an attempt of _post answered with a status that is neither 2xx nor
\* one of 429, 500, 502, 503 ends the call at once: the call raises in the
\* same step, with no sleep and no further attempt.
C13_FatalStatusNotRetried ==
    [][\A t \in 1..Len(tasks), r \in PostResponses(FatalStatuses) :
            PostResponse(t, r) =>
                /\ calls'[tasks[t].call].outcome = "raised"
                /\ calls'[tasks[t].call].error = ErrorText(r.status)
                /\ tasks'[t].pc \notin {"post", "backoff"}
                /\ tasks'[t].attempts = tasks[t].attempts
                /\ tasks'[t].slept = tasks[t].slept]_vars

\* A call that raised on a 404 at its first attempt, with retries left.
C13_Witness ==
    \E t \in 1..Len(tasks) :
        /\ settings.api_retries >= 2
        /\ tasks[t].pc = "closing"
        /\ tasks[t].attempts = 1
        /\ tasks[t].slept = <<>>
        /\ \E c \in PostCalls(t) :
                calls[c].outcome = "raised" /\ calls[c].error = ErrorText(404)

\* C14: a call of _get makes exactly one network attempt; a status other
\* than success, or a connection error, ends the call at once with an error,
\* with no sleep and no second attempt.
C14_GetSingleAttempt ==
    [][\A t \in 1..Len(tasks), r \in GetResponses :
            GetResponse(t, r) =>
                /\ tasks[t].attempts = 1
                /\ tasks'[t].pc # "get"
                /\ calls'[tasks[t].call].outcome # "pending"
                /\ r.status # 200 =>
                        /\ calls'[tasks[t].call].outcome = "raised"
                        /\ calls'[tasks[t].call].error = ErrorText(r.status)
                        /\ tasks'[t].pc = "closing"
                        /\ tasks'[t].attempts = 1
                        /\ tasks'[t].slept = <<>>]_vars

\* get_teams met a connection error: one attempt, the call raised, the job
\* failed with that error.
C14_Witness ==
    \E t \in 1..Len(tasks) :
        /\ tasks[t].pc = "closing"
        /\ tasks[t].attempts = 1
        /\ \E c \in CallsOf(t, "listWorkspaces") :
                /\ calls[c].outcome = "raised"
                /\ calls[c].error = ErrorText(ConnectionError)
                /\ JobOf(t).error = ErrorText(ConnectionError)

\* ------------------------------------------------------------ the job record
\* C15: total_pages of a job is the number of nodes of the whole input tree,
\* at every depth, from the moment the job is created and in every later
\* state.
C15_TotalPages ==
    \A t \in 1..Len(tasks) :
        objs[t].total_pages = Cardinality(DOMAIN tasks[t].request.pages)

\* A finished job of four pages on three levels.
C15_Witness ==
    \E t \in 1..Len(tasks) :
        /\ objs[t].status = completed
        /\ objs[t].total_pages = 4
        /\ \E p \in DOMAIN tasks[t].request.pages : Len(p) = 3

\* C16: run_wiki_creation returns before anything of the job has run: from
\* its return until the event loop first runs the job's task, the job is in
\* the store under its id with status queued, uploaded = 0, failed = 0 and
\* no result node, and no call has gone out to the remote side for it.
C16_SubmitReturnsQueued ==
    \A t \in 1..Len(tasks) :
        tasks[t].pc = "created" =>
            LET ref == Lookup(_jobs, tasks[t].job_id)
            IN  /\ ref # 0
                /\ objs[ref].job_id = tasks[t].job_id
                /\ objs[ref].status = queued
                /\ objs[ref].uploaded = 0
                /\ objs[ref].failed = 0
                /\ objs[ref].pages = <<>>
                /\ {c \in 1..Len(calls) : calls[c].task = t} = {}

\* A job of several pages just submitted: stored, its task not yet run.
C16_Witness ==
    \E t \in 1..Len(tasks) :
        /\ tasks[t].pc = "created"
        /\ Lookup(_jobs, tasks[t].job_id) = t
        /\ objs[t].total_pages >= 2
        /\ calls = <<>>

\* queued, then running, then one of the two final statuses.
StatusRank(status) ==
    CASE status = queued -> 0
      [] status = running -> 1
      [] OTHER -> 2
\* What a poller that saw the job as `old` may see later as `new`.
Advances(old, new) ==
    /\ new.uploaded >= old.uploaded
    /\ new.failed >= old.failed
    /\ StatusRank(new.status) >= StatusRank(old.status)
    /\ StatusRank(old.status) = 2 => new.status = old.status
    /\ old.doc_id # "" => new.doc_id = old.doc_id
    /\ old.workspace_id # "" => new.workspace_id = old.workspace_id
    /\ \A p \in DOMAIN old.pages :
            p \in DOMAIN new.pages /\ new.pages[p].title = old.pages[p].title

\* C17: from one observation of a job to the next, uploaded and failed never
\* decrease, status never moves backwards, doc_id and workspace_id once set
\* keep their value, and every result node stays where it is.
C17_Monotonic ==
    [][\A k \in 1..Len(objs) : Advances(objs[k], objs'[k])]_vars

\* A finished job that was seen to move: pages uploaded and failed, both ids
\* set, two result nodes in one list.
C17_Witness ==
    \E t \in 1..Len(tasks) :
        /\ Over(t)
        /\ objs[t].uploaded >= 1
        /\ objs[t].failed >= 1
        /\ objs[t].doc_id # ""
        /\ objs[t].workspace_id # ""
        /\ {<<1>>, <<2>>} \subseteq DOMAIN objs[t].pages

\* ------------------------------------------------------------ the document
\* C20: createDocument is called only when the target supplies no doc id,
\* then at most once, with the request's doc_name and the target's space id,
\* and every createPage call comes after it has returned and carries the
\* document id it returned; when the target supplies a doc id, createDocument
\* is never called and every createPage call carries that doc id.
C20_DocumentCreatedOnce ==
    \A t \in 1..Len(tasks) :
        LET request == tasks[t].request
            docs == CallsOf(t, "createDocument")
            pages == CallsOf(t, "createPage")
        IN  IF Falsy(request.target.doc_id)
            THEN /\ Cardinality(docs) <= 1
                 /\ \A d \in docs :
                        /\ calls[d].title = request.doc_name
                        /\ calls[d].parent_page_id = request.target.space_id
                 /\ \A c \in pages : \E d \in docs :
                        /\ d < c
                        /\ calls[d].outcome = "returned"
                        /\ calls[d].result # None
                        /\ calls[c].doc_id = calls[d].result
            ELSE /\ docs = {}
                 /\ \A c \in pages : calls[c].doc_id = request.target.doc_id

\* ------------------------------------------------------------ several jobs
\* C18: jobs never interfere: the k-th submit creates the k-th job record
\* and the k-th task, every submit yields a record of its own, and a step
\* that changes the status, the counters or the results of the k-th record
\* is a step of the k-th task.
C18_JobsIndependent ==
    [][/\ Len(objs) = Len(tasks)
       /\ \A k \in 1..Len(objs) :
            objs'[k] # objs[k] =>
                /\ tasks'[k] # tasks[k]
                /\ \A u \in 1..Len(tasks) \ {k} : tasks'[u] = tasks[u]]_vars

\* C19: the store only grows: get_job of the id of any submitted job returns
\* that job in every later state, and list_jobs is every submitted job once,
\* in the order of creation.
C19_StoreOnlyGrows ==
    /\ \A t \in 1..Len(tasks) : get_job(tasks[t].job_id) = t
    /\ list_jobs = [k \in 1..Len(objs) |-> k]

\* ----------------------------------------------------------- the target
IdFields == {"workspace_id", "doc_id", "parent_page_id", "space_id"}
\* TargetLocation has been applied to eval.arg.
Constructed == eval.op = "TargetLocation" /\ eval.done

Extracted == eval.op = "_try_parse_wiki_json" /\ eval.done
\* _normalize_wiki_payload has been applied to the object eval.arg.
Normalized == eval.op = "_normalize_wiki_payload" /\ eval.done

\* The text has an opening brace with a closing brace after it: without
\* one, no part of the text is a JSON object, however it is repaired.
ContainsObject(text) ==
    \E i \in Positions(text, P("{")), j \in Positions(text, P("}")) : i < j
\* x has a pages entry that is a list with at least one item.
HasPages(x) ==
    /\ IsDict(x)
    /\ Has(x, "pages")
    /\ IsList(x.v["pages"])
    /\ x.v["pages"].v # <<>>

\* C24: the extractor never raises: for every text it returns a payload
\* object or the not-found value, and the not-found value for a text with no
\* JSON object in it.
C24_NeverRaises ==
    Extracted =>
        /\ eval.ret.raised = ""
        /\ eval.ret.ret.k \in {"dict", "None"}
        /\ ~ContainsObject(eval.arg) => eval.ret.ret = JNull

\* C25: every object the extractor returns is in normal form (normalizing it
\* again changes nothing) and has a non-empty pages list.
C25_ReturnsNonEmptyPages ==
    (Extracted /\ eval.ret.raised = "" /\ eval.ret.ret # JNull) =>
        /\ _normalize_wiki_payload(eval.ret.ret).raised = ""
        /\ _normalize_wiki_payload(eval.ret.ret).ret = eval.ret.ret
        /\ HasPages(eval.ret.ret)

\* C26: for a text that is the well-formed JSON text of an object with a
\* non-empty pages list, the extractor returns an object equal to the object
\* the text stands for.
C26_RecoversOriginal ==
    (Extracted /\ json_loads(eval.arg).ok /\ HasPages(json_loads(eval.arg).val)) =>
        /\ eval.ret.raised = ""
        /\ eval.ret.ret = json_loads(eval.arg).val

\* C27: normalize is pure and total: for every object it returns without
\* raising, its argument is after the call what it was before, and a pages
\* value that is not a list is in the result as it was given.
C27_PureTotal ==
    Normalized =>
        /\ eval.ret.raised = ""
        /\ eval.ret.arg = eval.arg
        /\ (Has(eval.arg, "pages") /\ ~IsList(eval.arg.v["pages"])) =>
                /\ Has(eval.ret.ret, "pages")
                /\ eval.ret.ret.v["pages"] = eval.arg.v["pages"]

\* ------------------------------------------------------------ page content
\* create_page has built the content of its payload from eval.arg.
Sent == eval.op = "create_page" /\ eval.done

\* C29: create_page sends content no longer than the ceiling as it is, and
\* of longer content the first ceiling characters followed by the notice and
\* nothing else; it sends something for content of every size.
C29_Truncation ==
    Sent =>
        LET content == eval.arg.content
            ceiling == eval.arg.max_content_size
        IN  /\ Len(content) <= ceiling => eval.ret = content
            /\ Len(content) > ceiling =>
                    /\ Len(eval.ret) = ceiling + 1
                    /\ \A i \in 1..ceiling : eval.ret[i] = content[i]
                    /\ eval.ret[ceiling + 1] = TruncationNotice

\* Content of three characters under a ceiling of two goes out as its first
\* two characters and the notice.
C29_Witness ==
    /\ Sent
    /\ eval.arg.max_content_size = 2
    /\ eval.arg.content = <<"a", "b", "a">>
    /\ eval.ret = <<"a", "b", TruncationNotice>>

\* --------------------------------------------------------------- the router
Done(i) == handlers[i].pc = "done"
\* The request has created a job: its task, and its record in the store.
Created(i) == handlers[i].job_id # None
TaskOf(i) == CHOOSE t \in 1..Len(tasks) : tasks[t].job_id = handlers[i].job_id
RecordOf(i) == objs[get_job(handlers[i].job_id)]

\* C21: a bounded wait that runs out on a job still queued or running does
\* not report the job as failed.
C21_StillRunningNotFailed ==
    \A i \in 1..Len(handlers) :
        (/\ handlers[i].endpoint = "GET /wiki/create"
         /\ Done(i)
         /\ Created(i)
         /\ handlers[i].response.body.status \in {queued, running}) =>
            handlers[i].response.body.headline # "WIKI CREATION FAILED"

\* The url is neither a ClickUp document url nor a ClickUp space url.
Unparseable(url) ==
    /\ url # NoUrl
    /\ \/ Len(url) < 7
       \/ url[3] # "app.clickup.com"
       \/ url[6] \notin {"dc", "s"}
\* The ids of a target, without its url.
Ids(target) == [field \in IdFields |-> target[field]]

\* C23: a target with a url of neither shape is constructed without error
\* and with the ids it was given; POST /wiki accepts the request and answers
\* that the job is queued; and when neither a doc id nor a space id was given,
\* the job makes no document or page call and, once over, has failed with an
\* error -- the one about the missing ids when the workspace was resolved.
C23_UnparseableUrl ==
    \A i \in 1..Len(handlers) :
        LET h == handlers[i]
        IN  /\ (h.endpoint = "POST /wiki" /\ Unparseable(h.given.url)) =>
                    /\ h.response.raised \in {"", "HTTPException"}
                    /\ h.response.raised = "" =>
                            /\ Created(i)
                            /\ h.response.status_code = 202
                            /\ h.response.body.status = queued
            /\ (Created(i) /\ Unparseable(h.given.url)) =>
                    /\ Ids(tasks[TaskOf(i)].request.target) = Ids(h.given)
                    /\ (Falsy(h.given.doc_id) /\ Falsy(h.given.space_id)) =>
                            /\ RecordOf(i).status # completed
                            /\ CallsOf(TaskOf(i), "createDocument") = {}
                            /\ CallsOf(TaskOf(i), "createPage") = {}
                            /\ Over(TaskOf(i)) =>
                                    /\ RecordOf(i).status = failed
                                    /\ RecordOf(i).error # ""
                                    /\ tasks[TaskOf(i)].workspace_id # None =>
                                            RecordOf(i).error = NoTarget

\* POST /wiki with a url on another host was answered 202, and the job has
\* failed over the missing ids.
C23_Witness ==
    \E i \in 1..Len(handlers) :
        /\ handlers[i].endpoint = "POST /wiki"
        /\ handlers[i].given.url = UrlParts(ForeignUrl)
        /\ handlers[i].response.status_code = 202
        /\ Created(i)
        /\ tasks[TaskOf(i)].pc = "done"
        /\ RecordOf(i).status = failed
        /\ RecordOf(i).error = NoTarget

\* C28: on a server with its API key, the webhook handler never lets an
\* exception out; it answers "ignored" and creates no job when it has found no
\* payload, "error" and no job when the payload it found does not validate,
\* and "accepted" with exactly one job when it does.
C28_WebhookOutcomes ==
    \A i \in 1..Len(handlers) :
        LET h == handlers[i]
        IN  (h.endpoint = "POST /webhook/clickup" /\ settings.clickup_api_key # "") =>
                /\ h.response.raised = ""
                /\ h.response.body.status \in {"ok", "ignored", "error", "accepted"}
                /\ h.response.body.status \in {"ok", "ignored"} =>
                        h.wiki_payload.k = "None" /\ ~Created(i)
                /\ h.response.body.status = "error" =>
                        h.wiki_payload.k = "dict" /\ ~Created(i)
                /\ h.response.body.status = "accepted" =>
                        /\ h.wiki_payload.k = "dict"
                        /\ Cardinality({t \in 1..Len(tasks) :
                                            tasks[t].job_id = h.job_id}) = 1
                        /\ Len(tasks) = Cardinality({k \in 1..Len(handlers) : Created(k)})

\* The request carries no header, or one that is not the configured secret.
WithoutSecret(i) ==
    settings.api_secret # "" /\ handlers[i].x_api_secret # settings.api_secret

\* C30: with API_SECRET configured, a request without the matching header
\* creates no job and is not answered with a job's status.
C30_SecretRequired ==
    \A i \in 1..Len(handlers) :
        WithoutSecret(i) =>
            /\ ~Created(i)
            /\ Done(i) =>
                    ~(/\ handlers[i].response.status_code = 200
                      /\ handlers[i].endpoint \in
                            {"GET /wiki/{job_id}", "GET /wiki", "GET /wiki/create"})

\* C31: a payload from which the webhook handler has built a request is as
\* the normalizer leaves it: normalizing it again raises nothing and changes
\* nothing, so no target_url and no summary is left to reconcile.
C31_PayloadNormalized ==
    \A i \in 1..Len(handlers) :
        (handlers[i].endpoint = "POST /webhook/clickup" /\ Created(i)) =>
            /\ _normalize_wiki_payload(handlers[i].wiki_payload).raised = ""
            /\ _normalize_wiki_payload(handlers[i].wiki_payload).ret =
                    handlers[i].wiki_payload


\* The candidates when every strategy is tried on the raw text and on the
\* cleaned text: the fenced blocks of each, then the text, its brace span and
\* the repaired brace span of each.
CandidatesOfBoth(text) ==
    BlockCandidates(code_blocks(text)) \o
    BlockCandidates(code_blocks(_clean_rich_text(text))) \o
    TextCandidates(text) \o TextCandidates(_clean_rich_text(text))

\* C32: the extractor gives what the first qualifying candidate gives when
\* fenced-block extraction, direct parse, brace-span extraction and repair are
\* each tried on the raw text and on the cleaned text.
C32_StrategiesOnBoth ==
    Extracted => eval.ret = TryFrom(CandidatesOfBoth(eval.arg), 1)


\* _repair_json has been applied to eval.arg.text with eval.arg.max_fixes.
Repaired == eval.op = "_repair_json" /\ eval.done
\* The decode failure is one the loop patches.
Patchable(r) == ~r.ok /\ r.msg \in {ControlCharacter, InvalidEscape}

\* C33: the repair loop makes at most max_fixes patches; when it has made
\* fewer and the text still does not parse, the failure it stopped at is
\* neither an invalid control character nor an invalid escape; and a text
\* that it returns unparsed is not taken as a payload by the extractor, which
\* goes on to its next candidate.
C33_RepairBounded ==
    Repaired =>
        LET r == json_loads(eval.ret.text)
        IN  /\ eval.ret.fixes <= eval.arg.max_fixes
            /\ (~r.ok /\ eval.ret.fixes < eval.arg.max_fixes) => ~Patchable(r)
            /\ ~r.ok =>
                    /\ TryFrom(<<eval.ret.text>>, 1) = [raised |-> "", ret |-> JNull]
                    /\ TryFrom(<<eval.ret.text, Dump(GoodPayload)>>, 1) =
                            TryFrom(<<Dump(GoodPayload)>>, 1)

\* The loop has used up its patches on a text that needs more.
C33_Witness ==
    /\ Repaired
    /\ eval.arg.max_fixes = MaxFixes
    /\ eval.ret.fixes = MaxFixes
    /\ Patchable(json_loads(eval.ret.text))


\* ------------------------------------------------------------ the walk, again
\* C34: every createPage call for a top-level page carries the target's
\* parent_page_id as its parent reference when the target names one, and no
\* parent reference when it names none.
C34_TopLevelParent ==
    \A t \in 1..Len(tasks) :
        \A c \in CallsOf(t, "createPage") :
            Len(calls[c].page) = 1 =>
                calls[c].parent_page_id = tasks[t].request.target.parent_page_id

\* Two top-level pages were sent under the parent the target names, the
\* second after the first had failed.
C34_Witness ==
    \E t \in 1..Len(tasks) :
        /\ tasks[t].request.target.parent_page_id = "pp1"
        /\ \E c \in RaisedOf(t, "createPage"), d \in CallsOf(t, "createPage") :
            /\ c < d
            /\ calls[c].page = <<1>>
            /\ calls[d].page = <<2>>
            /\ calls[d].parent_page_id = "pp1"

\* The input pages of task t that lie below a page whose result is `failed`.
BelowFailed(t) ==
    {p \in DOMAIN tasks[t].request.pages :
        \E a \in Ancestors(p) :
            a \in DOMAIN JobOf(t).pages /\ JobOf(t).pages[a].status = "failed"}

\* C35: uploaded + failed never exceeds total_pages, and a result node that
\* is marked uploaded is never marked failed afterwards.
C35_CountersBounded ==
    /\ [](\A k \in 1..Len(objs) : objs[k].uploaded + objs[k].failed <= objs[k].total_pages)
    /\ [][\A k \in 1..Len(objs) : \A p \in DOMAIN objs[k].pages :
            objs[k].pages[p].status = "uploaded" => objs'[k].pages[p].status = "uploaded"]_vars

\* Every page of a job was attempted: some uploaded, some failed, and the
\* counters add up to total_pages.
C35_Witness ==
    \E t \in 1..Len(tasks) :
        /\ Over(t)
        /\ JobOf(t).uploaded >= 2
        /\ JobOf(t).failed >= 1
        /\ JobOf(t).uploaded + JobOf(t).failed = JobOf(t).total_pages

\* C36: when the walk is over, the pages uploaded, the pages failed and the
\* input pages below a failed page are all the pages of the job.
C36_Accounting ==
    \A t \in 1..Len(tasks) : WalkOver(t) =>
        JobOf(t).uploaded + JobOf(t).failed + Cardinality(BelowFailed(t))
            = JobOf(t).total_pages

\* A walk that is over with a page uploaded, a page failed and two pages
\* below the failed one.
C36_Witness ==
    \E t \in 1..Len(tasks) :
        /\ WalkOver(t)
        /\ JobOf(t).uploaded = 1
        /\ JobOf(t).failed = 1
        /\ Cardinality(BelowFailed(t)) = 2

\* C37: a result node in status uploaded has a non-empty remote page id, and
\* so every createPage call for a page below the top level carries a parent
\* reference.
C37_UploadedHasId ==
    \A t \in 1..Len(tasks) : Begun(t) =>
        /\ \A p \in DOMAIN JobOf(t).pages :
                JobOf(t).pages[p].status = "uploaded"
                    => JobOf(t).pages[p].clickup_page_id # ""
        /\ \A c \in CallsOf(t, "createPage") :
                Len(calls[c].page) > 1 => calls[c].parent_page_id # None

\* C38: the walk starts with a non-empty doc id: no createPage call goes out
\* with an empty doc id, and when createDocument returns a response without
\* an id the job fails without any createPage call.
C38_WalkHasDocument ==
    \A t \in 1..Len(tasks) :
        /\ \A c \in CallsOf(t, "createPage") : ~Falsy(calls[c].doc_id)
        /\ (\E d \in ReturnedOf(t, "createDocument") : calls[d].result = None)
                => /\ CallsOf(t, "createPage") = {}
                   /\ Over(t) => JobOf(t).status = failed


\* ------------------------------------------------------------ _post, again
\* C39: a post call is over as soon as one attempt is answered with a 2xx
\* status, whichever: where the remote side answers every attempt with a 2xx
\* status, no call makes a second attempt.
C39_ReturnsOnSuccess ==
    \A t \in 1..Len(tasks) :
        remote \subseteq Successful => tasks[t].attempts <= 1


\* ---------------------------------------------------------------- oauth.py
\* secrets.token_urlsafe(n): the k-th value it produces. No value comes
\* twice; Secret(0) stands for any string it never produced, "" included.
Secret(k) == [secret |-> k]

\* The code verifiers a client sends, one of them not ASCII, and
\* base64.urlsafe_b64encode(hashlib.sha256(v.encode("ascii")).digest())
\* .rstrip(b"=").decode("ascii") of the others.
Verifiers == {"v1", "v2", "v-not-ascii"}
IsAscii(code_verifier) == code_verifier # "v-not-ascii"
S256(code_verifier) ==
    CASE code_verifier = "v1" -> "digest-of-v1"
      [] code_verifier = "v2" -> "digest-of-v2"

\* The process state the handlers work on, and the time they read.
OAuth ==
    [_auth_codes |-> _auth_codes, _refresh_tokens |-> _refresh_tokens,
     drawn |-> drawn, now |-> clock]

\* No tokens: what a response other than _issue_tokens carries.
NoTokens == [sub |-> "", scope |-> "", iat |-> 0, exp |-> 0]
\* JSONResponse({"error": ..., "error_description": ...}, status_code=400)
ErrorResponse(error, error_description) ==
    [status_code |-> 400, error |-> error, error_description |-> error_description,
     access_token |-> NoTokens, refresh_token |-> Secret(0)]
\* An exception left the handler: the framework answers 500.
InternalServerError ==
    [status_code |-> 500, error |-> "", error_description |-> "",
     access_token |-> NoTokens, refresh_token |-> Secret(0)]

\* _issue_tokens: the access token is a JWT of these claims; the refresh
\* token is a new secret, stored with the client id and the scope.
_issue_tokens(o, client_id, scope) ==
    LET access == [sub |-> client_id, scope |-> scope, iat |-> o.now,
                   exp |-> o.now + 3600 * 8]
        refresh == Secret(o.drawn + 1)
    IN  [o |-> [o EXCEPT !.drawn = @ + 1,
                         !._refresh_tokens = @ \cup
                            {[token |-> refresh, client_id |-> client_id,
                              scope |-> scope, created_at |-> o.now]}],
         response |-> [status_code |-> 200, error |-> "", error_description |-> "",
                       access_token |-> access, refresh_token |-> refresh]]

\* The checks of _exchange_code on the stored entry, in the order of the code.
ExchangeStored(o, stored, data) ==
    IF stored.expires_at < o.now
    THEN [o |-> o, response |-> ErrorResponse("invalid_grant", "Code expired")]
    ELSE IF stored.client_id # data.client_id
    THEN [o |-> o, response |-> ErrorResponse("invalid_grant", "Client ID mismatch")]
    ELSE IF ~Falsy(data.redirect_uri) /\ stored.redirect_uri # data.redirect_uri
    THEN [o |-> o, response |-> ErrorResponse("invalid_grant", "Redirect URI mismatch")]
    ELSE IF stored.code_challenge_method = "S256" /\ ~IsAscii(data.code_verifier)
    THEN [o |-> o, response |-> InternalServerError]
    ELSE IF (IF stored.code_challenge_method = "S256"
             THEN S256(data.code_verifier) ELSE data.code_verifier)
            # stored.code_challenge
    THEN [o |-> o, response |-> ErrorResponse("invalid_grant", "PKCE verification failed")]
    ELSE _issue_tokens(o, data.client_id, stored.scope)

\* Variant: the entry is looked up and stays in the store.
ExchangeKeepsCode(o, data) ==
    LET found == {c \in o._auth_codes : c.code = data.code}
    IN  IF found = {}
        THEN [o |-> o, response |-> ErrorResponse("invalid_grant", "Invalid or expired code")]
        ELSE ExchangeStored(o, CHOOSE c \in found : TRUE, data)

\* _exchange_code: stored = _auth_codes.pop(code, None) takes the entry out
\* of the store before anything is checked.
_exchange_code(o, data) ==
    LET found == {c \in o._auth_codes : c.code = data.code}
        popped == [o EXCEPT !._auth_codes = @ \ found]
    IN  IF found = {}
        THEN [o |-> popped,
              response |-> ErrorResponse("invalid_grant", "Invalid or expired code")]
        ELSE ExchangeStored(popped, CHOOSE c \in found : TRUE, data)

\* _do_refresh
_do_refresh(o, data) ==
    LET found == {r \in o._refresh_tokens : r.token = data.refresh_token}
        popped == [o EXCEPT !._refresh_tokens = @ \ found]
    IN  IF found = {} \/ (CHOOSE r \in found : TRUE).client_id # data.client_id
        THEN [o |-> popped, response |-> ErrorResponse("invalid_grant", "")]
        ELSE _issue_tokens(popped, data.client_id, (CHOOSE r \in found : TRUE).scope)

\* POST /oauth/token
token_endpoint(o, data) ==
    IF data.grant_type = "authorization_code" THEN _exchange_code(o, data)
    ELSE IF data.grant_type = "refresh_token" THEN _do_refresh(o, data)
    ELSE [o |-> o, response |-> ErrorResponse("unsupported_grant_type", "")]

\* The lifetime of an authorization code, in seconds.
CodeLifetime == 300

\* POST /oauth/authorize: a denial stores nothing; an approval stores a new
\* code with what the form carried.
authorize_post(o, form) ==
    IF form.action # "approve" THEN o
    ELSE [o EXCEPT !.drawn = @ + 1,
                   !._auth_codes = @ \cup
                        {[code |-> Secret(o.drawn + 1),
                          client_id |-> form.client_id,
                          redirect_uri |-> form.redirect_uri,
                          code_challenge |-> form.code_challenge,
                          code_challenge_method |-> form.code_challenge_method,
                          scope |-> form.scope,
                          expires_at |-> o.now + CodeLifetime]}]

\* ------------------------------------------ the authorization-server level
\* Up to MaxCodes approvals and MaxTokenRequests token requests, in any
\* order, with the clock moving by one code lifetime up to MaxTicks times.
MaxCodes == 2
MaxTokenRequests == 3
MaxTicks == 2

\* The consent forms a browser posts.
Forms ==
    [action : {"approve", "deny"}, client_id : {"cl1"},
     redirect_uri : {"https://a.example/cb"},
     code_challenge : {"digest-of-v1", "v1"},
     code_challenge_method : {"S256", "plain"}, scope : {"mcp:tools"}]

\* The bodies a client posts to /oauth/token once n secrets exist: any secret
\* produced so far, or a string that never was one, as code or refresh token.
TokenRequests(n) ==
    [grant_type : {"authorization_code", "refresh_token", "password"},
     code : {Secret(k) : k \in 0..n}, refresh_token : {Secret(0)},
     code_verifier : Verifiers, client_id : {"cl1", "cl2"},
     redirect_uri : {None, "https://a.example/cb", "https://b.example/cb"}]
    \cup
    [grant_type : {"refresh_token"},
     code : {Secret(0)}, refresh_token : {Secret(k) : k \in 1..n},
     code_verifier : {"v1"}, client_id : {"cl1", "cl2"}, redirect_uri : {None}]

OAuthInit ==
    /\ _jobs = <<>>
    /\ objs = <<>>
    /\ tasks = <<>>
    /\ calls = <<>>
    /\ assigned = <<>>
    /\ handlers = <<>>
    /\ OAuthEmpty
    /\ eval = NoEval
    /\ settings \in SettingsSet({0}, {1})
    /\ remote = {200}

\* The handlers leave everything but the authorization server alone.
OAuthCommit(o) ==
    /\ _auth_codes' = o._auth_codes
    /\ _refresh_tokens' = o._refresh_tokens
    /\ drawn' = o.drawn
    /\ UNCHANGED <<_jobs, objs, tasks, calls, settings, remote, assigned, handlers,
                   eval, clock>>

\* How many of the secrets drawn are authorization codes: every other one is
\* the refresh token of a token response.
CodesIssued ==
    drawn - Cardinality({i \in 1..Len(token_log) :
                            token_log[i].response.status_code = 200})

Authorizes ==
    /\ CodesIssued < MaxCodes
    /\ \E form \in Forms : OAuthCommit(authorize_post(OAuth, form))
    /\ UNCHANGED token_log

Exchanges ==
    /\ Len(token_log) < MaxTokenRequests
    /\ \E data \in TokenRequests(drawn) :
        LET r == token_endpoint(OAuth, data)
        IN  /\ OAuthCommit(r.o)
            /\ token_log' = Append(token_log,
                    [grant_type |-> data.grant_type, code |-> data.code,
                     response |-> r.response])

Ticks ==
    /\ clock < MaxTicks * CodeLifetime
    /\ clock' = clock + CodeLifetime
    /\ UNCHANGED <<_jobs, objs, tasks, calls, settings, remote, assigned, handlers,
                   eval, _auth_codes, _refresh_tokens, drawn, token_log>>

OAuthNext ==
    \/ Authorizes
    \/ Exchanges
    \/ Ticks

OAuthSpec == OAuthInit /\ [][OAuthNext]_vars

\* The requests of the log that present `code` for exchange.
Presenting(code) ==
    {i \in 1..Len(token_log) :
        token_log[i].grant_type = "authorization_code" /\ token_log[i].code = code}

\* C40: an authorization code is exchanged at most once: once a token request
\* has presented a code, whatever the answer was, every later token request
\* presenting the same code is answered 400 invalid_grant with no tokens.
C40_CodeSingleUse ==
    \A i, k \in 1..Len(token_log) :
        (i < k /\ i \in Presenting(token_log[k].code) /\ k \in Presenting(token_log[k].code))
            => /\ token_log[k].response.status_code = 400
               /\ token_log[k].response.error = "invalid_grant"
               /\ token_log[k].response.access_token = NoTokens
               /\ token_log[k].response.refresh_token = Secret(0)

\* An issued code was exchanged for tokens and then presented again.
C40_Witness ==
    \E i, k \in 1..Len(token_log) :
        /\ i < k
        /\ token_log[i].code = token_log[k].code
        /\ token_log[i].code # Secret(0)
        /\ {i, k} \subseteq Presenting(token_log[i].code)
        /\ token_log[i].response.status_code = 200
        /\ token_log[k].response.error = "invalid_grant"

====
